---- MODULE Spec2Model ----
(***************************************************************************)
(* Billing service of the LLM gateway: the reserve/commit ledger protocol  *)
(* of services/billing/server.py (monolith, with the in-process            *)
(* MonitoringSystem) and services/billing/billing_core.py (the same        *)
(* handlers without monitoring), run by concurrent request threads         *)
(* against one Redis store.                                                *)
(*                                                                         *)
(* Money is counted in units of 0.00001 USD (the quantum of                *)
(* Decimal.quantize('0.00001')).  Unit prices are in 0.001 USD per         *)
(* 1,000,000 tokens.  Every Redis command is one atomic step; a handler is *)
(* a sequence of such steps and handlers interleave between them.          *)
(* The Redis client is taken to return decoded strings, and the pricing    *)
(* lookup of billing_core.py (pricing_stub) is taken to serve the same     *)
(* table as PricingManager.get_price; its exchange_stub likewise serves    *)
(* the table of the ExchangeRateManager.                                   *)
(*                                                                         *)
(* A reply is the outcome the handler ends with: the success response, or  *)
(* the message of the exception that handle_billing_errors receives (the   *)
(* wire encoding of the response is not modelled).  Amounts written as     *)
(* float(x) and read back with Decimal(..) keep their value: every amount  *)
(* is a multiple of the quantum with at most five decimals.  Stream        *)
(* entries are kept without their timestamp field, except in               *)
(* billing:alerts.                                                         *)
(*                                                                         *)
(* The exchange-rate table of services/billing/exchange_service.py (the    *)
(* same ExchangeRateManager is part of server.py) has a specification of   *)
(* its own, SpecExchange; rates are counted in hundredths.  An operation   *)
(* of the manager is a step up to self.lock and a step under the lock.     *)
(***************************************************************************)
EXTENDS Integers, Sequences, FiniteSets, TLC

\* ------------------------------------------------------------------ bounds
MaxCalls == 3
MaxEvents == 1
MaxTokens == 4

\* ------------------------------------------------------- program constants
RESERVATION_TTL == 600
COMMITTED_TTL == 86400
LOW_BALANCE == 1000000
AMOUNT_LIMIT_USD == 1000000
UNITS_PER_USD == 100000
QUANT_DIV == 10000
ALERT_COOLDOWN == 3600
\* the wall clock when the process starts, in seconds: time.time() is this
\* plus the time the model counts from the start
START_TIME == 1000000

Workers == {"w1", "w2"}
Users == {"usr1"}
Models == {"gpt-4o"}
Endpoints == {"chat"}
RequestIds == {"req1", "req2"}
Services == {"server", "core"}

\* inputs the clients send
ReserveTokens == {<<1000, 500>>}
CommitTokens == {<<950, 480>>, <<2000, 1500>>}
ChargeInputs == {<<1000, 1250>>, <<0, 1250>>, <<1000, 0>>}
DepositCents == {2}
InitialDeposits == {0, 2}
\* request.amount_usd of AdjustBalance, in whole USD
AdjustAmounts == {-5, 0, 10, 1000000}
TickSteps == {RESERVATION_TTL, COMMITTED_TTL}

\* inputs of the cost function on its own
CostModels == {"gpt-4o", "text-embedding-3-large", "gpt-5"}
CostEndpoints == {"chat", "embed", "image"}
CostTokens == (0 .. MaxTokens) \cup {49, 50, 51, 1000}

\* DEFAULT_PRICING, in 0.001 USD per 1,000,000 tokens
DEFAULT_PRICING ==
  [m \in {"gpt-4o", "text-embedding-3-large"} |->
     IF m = "gpt-4o"
       THEN [chat_input |-> 5000, chat_output |-> 15000, embed |-> 100]
       ELSE [embed |-> 130]]

\* ----------------------------------------------------------------- helpers
Put(f, k, v) == (k :> v) @@ f
HasField(h, k) == k \in DOMAIN h
HGet(h, k, default) == IF k \in DOMAIN h THEN h[k] ELSE default

\* quantize that drops the fraction (ROUND_DOWN)
QuantizeHalfUp_RoundDown(n, d) == n \div d

\* Decimal.quantize(Decimal('0.00001'), ROUND_HALF_UP) of n / d, n >= 0
QuantizeHalfUp(n, d) == (2 * n + d) \div (2 * d)

\* PricingManager.get_price: a missing model or price falls back to a default
get_price(pricing, model, endpoint) ==
  LET model_pricing == IF model \in DOMAIN pricing THEN pricing[model] ELSE [none |-> 0]
      price(k, dflt) == IF k \in DOMAIN model_pricing THEN model_pricing[k] ELSE dflt
  IN IF endpoint = "chat"
       THEN [input |-> price("chat_input", 10000), output |-> price("chat_output", 30000)]
       ELSE [embed |-> price("embed", 130)]

\* the else branch of get_price and of calculate_cost: any other endpoint
\* raises PricingError
UnknownEndpoint(endpoint) == endpoint \notin {"chat", "embed"}

\* when the pricing lookup of calculate_cost raises: only for an endpoint
\* that is neither chat nor embed (a missing model or price gets a default)
PricingMiss(pricing, model, endpoint) == UnknownEndpoint(endpoint)

\* BillingService.calculate_cost, for endpoint in {chat, embed}
calculate_cost(pricing, model, endpoint, input_t, output_t) ==
  LET prices == get_price(pricing, model, endpoint)
  IN IF endpoint = "chat"
       THEN QuantizeHalfUp(input_t * prices.input + output_t * prices.output, QUANT_DIV)
       ELSE QuantizeHalfUp(input_t * prices.embed, QUANT_DIV)

\* EXCHANGE_RATES of exchange_service.py, in 1/RATE_SCALE
RATE_SCALE == 100
UPDATE_INTERVAL == 3600
EXCHANGE_RATES ==
  [USD |-> 100, EUR |-> 92, RUB |-> 9650, USDT |-> 100,
   GBP |-> 79, CNY |-> 723, JPY |-> 15675, INR |-> 8345]

\* the inputs of the exchange-rate operations
ExchangeCurrencies == {"USD", "USDT", "EUR", "CHF", "US1"}
ExchangeInputRates == {100, 200}
\* what requests.get brings: a timeout, a document without "rates", or rates
Feeds ==
  {[status |-> "timeout"], [status |-> "no_rates"],
   [status |-> "ok", rates |-> ("EUR" :> 95)],
   [status |-> "ok", rates |-> ("USD" :> 500) @@ ("EUR" :> 0)]}

\* Decimal(session.amount_total) / 100, in units
CentsToUnits(amount_total) == amount_total * (UNITS_PER_USD \div 100)

\* validate_amount without the lower bound
validate_amount_NoLowerBound(amount) == ~(amount >= AMOUNT_LIMIT_USD)

\* validate_amount, of an amount in USD
validate_amount(amount) == ~(amount <= 0 \/ amount >= AMOUNT_LIMIT_USD)

\* ------------------------------------------------------------------- state
VARIABLES
  service,              \* which entry point runs: server.py or billing_core.py
  EXCHANGE_MANAGER,     \* the process-wide ExchangeRateManager: rates,
                        \* last_updated, supported_currencies
  exchange_rates,       \* the keys exchange_rates:current, :last_updated and
                        \* :supported of the store
  PRICING_MANAGER,      \* the process-wide PricingManager: pricing, source
  PRICING,              \* the module global PRICING of server.py
  pricing_current,      \* the key pricing:current of the store
  now,                  \* int(time.time())
  events, calls,        \* how many environment events (clock moves, faults) and calls so far
  balance,              \* Redis keys balance:<user_id>
  reservation,          \* Redis hashes reservation:<reservation_id>
  expires,              \* the expiry deadline of each reservation key that has one
  billing_log,          \* stream billing:log
  billing_adjustments,  \* stream billing:adjustments
  billing_deposits,     \* stream billing:deposits
  billing_alerts,       \* stream billing:alerts
  usage,                \* hashes usage:<user>:model:<model> and usage:daily:<day>
  metrics,              \* MonitoringSystem.metrics
  monlock,              \* holder of MonitoringSystem.lock (threading.Lock)
  pc, req, loc, reply   \* per request thread: position, request, locals, last reply

store == <<balance, reservation, expires, billing_log, billing_adjustments,
           billing_deposits, billing_alerts, usage>>
monitor == <<metrics, monlock>>
threads == <<pc, req, loc, reply>>
exchange == <<EXCHANGE_MANAGER, exchange_rates>>
pricing_vars == <<PRICING_MANAGER, PRICING, pricing_current>>
vars == <<service, exchange, pricing_vars, now, events, calls, store, monitor, threads>>

NoLock == "none"
NoId == <<>>
NoReq == [op |-> "none"]
NoLoc == [balance |-> 0]
NoReply == [op |-> "none", ok |-> FALSE, error |-> "none", amount |-> 0,
            balance |-> 0, reservation_id |-> NoId]
Failure(op, error) == [NoReply EXCEPT !.op = op, !.error = error]
CommitFailure(error, rid) == [Failure("Commit", error) EXCEPT !.reservation_id = rid]
Success(op, amount, bal, rid) ==
  [op |-> op, ok |-> TRUE, error |-> "", amount |-> amount, balance |-> bal,
   reservation_id |-> rid]

\* time.time()
time_time == START_TIME + now

\* MonitoringSystem.__init__
InitMetrics ==
  [total_requests |-> 0, successful_requests |-> 0, failed_requests |-> 0,
   total_charges |-> 0, total_reservations |-> 0, total_commits |-> 0,
   last_alert |-> 0]

\* Decimal(r.get(f"balance:{user_id}") or "0")
GetBalance(user_id) == IF user_id \in DOMAIN balance THEN balance[user_id] ELSE 0

\* ----------------------------------------------------------- pricing table
\* r.get of a key that was never set
None == "None"

\* no pricing table: the key pricing:current that was never set, the global
\* PRICING that was never bound
NoPricing == [unset |-> TRUE]

\* PricingManager.__init__, and a store without the key pricing:current;
\* the global PRICING is not bound before the first admin update
PricingInit ==
  /\ PRICING_MANAGER = [pricing |-> DEFAULT_PRICING, source |-> "default"]
  /\ PRICING = NoPricing
  /\ pricing_current = NoPricing

\* ------------------------------------------------------ exchange-rate table
\* a rate as the manager holds it: a Decimal (the default table, the feed,
\* the administrator's input) or a float (read back from JSON); rates are
\* in 1/RATE_SCALE
Dec(n) == [rate |-> n, type |-> "Decimal"]
Float(n) == [rate |-> n, type |-> "float"]

\* ExchangeRateManager.__init__
ExchangeRateManagerInit ==
  [rates |-> [c \in DOMAIN EXCHANGE_RATES |-> Dec(EXCHANGE_RATES[c])],
   last_updated |-> 0,
   supported_currencies |-> <<"USD", "EUR", "RUB", "USDT", "GBP", "CNY", "JPY", "INR">>]

\* the exchange keys of a store that never held them
NoExchangeKeys == [current |-> None, last_updated |-> None, supported |-> None]

\* json.dumps(rates) raises TypeError on a Decimal value
JsonSerializable(rates) == \A c \in DOMAIN rates : rates[c].type # "Decimal"

\* json.loads(json.dumps(rates)): every number comes back as a float
JsonRoundTrip(rates) == [c \in DOMAIN rates |-> Float(rates[c].rate)]

\* currency.isalpha() and len(currency) == 3, on the codes of the model
IsAlpha3(currency) == currency \in (DOMAIN EXCHANGE_RATES \cup {"CHF"}) \ {"USDT"}

Del(f, k) == [x \in DOMAIN f \ {k} |-> f[x]]
Elements(seq) == {seq[i] : i \in 1 .. Len(seq)}

\* list.remove(x): drops the first occurrence
ListRemove(seq, x) ==
  LET i == CHOOSE k \in 1 .. Len(seq) :
             seq[k] = x /\ \A j \in 1 .. (k - 1) : seq[j] # x
  IN SubSeq(seq, 1, i - 1) \o SubSeq(seq, i + 1, Len(seq))

\* the loop of fetch_exchange_rates over supported_currencies: USD and USDT
\* are set to 1, another currency takes the feed's rate when the feed has a
\* truthy one, else the rate held so far, else 1
NewRates(m, data) ==
  [c \in {"USD"} \cup Elements(m.supported_currencies) |->
     IF c \in {"USD", "USDT"} THEN Dec(RATE_SCALE)
     ELSE IF c \in DOMAIN data /\ data[c] # 0 THEN Dec(data[c])
     ELSE IF c \in DOMAIN m.rates THEN m.rates[c]
     ELSE Dec(RATE_SCALE)]

Init ==
  /\ service \in Services
  /\ EXCHANGE_MANAGER = ExchangeRateManagerInit
  /\ exchange_rates = NoExchangeKeys
  /\ PricingInit
  /\ now = 0 /\ events = 0 /\ calls = 0
  \* the store as an earlier run of the service left it: empty, or holding
  \* one deposit made through the webhook
  /\ \E u \in Users, c \in InitialDeposits :
       IF c = 0
         THEN balance = <<>> /\ billing_deposits = <<>>
         ELSE /\ balance = (u :> CentsToUnits(c))
              /\ billing_deposits = <<[user_id |-> u, amount_usd |-> CentsToUnits(c)]>>
  /\ reservation = <<>> /\ expires = <<>>
  /\ billing_log = <<>> /\ billing_adjustments = <<>>
  /\ billing_alerts = <<>>
  /\ usage = <<>>
  /\ metrics = InitMetrics /\ monlock = NoLock
  /\ pc = [w \in Workers |-> "idle"]
  /\ req = [w \in Workers |-> NoReq]
  /\ loc = [w \in Workers |-> NoLoc]
  /\ reply = [w \in Workers |-> NoReply]

\* ---------------------------------------------------------- thread control
\* the handler returns (or aborts): the reply goes out and the locals die
Return(w, r) ==
  /\ pc' = [pc EXCEPT ![w] = "idle"]
  /\ reply' = [reply EXCEPT ![w] = r]
  /\ req' = [req EXCEPT ![w] = NoReq]
  /\ loc' = [loc EXCEPT ![w] = NoLoc]

Goto(w, p, l) ==
  /\ pc' = [pc EXCEPT ![w] = p]
  /\ loc' = [loc EXCEPT ![w] = l]
  /\ UNCHANGED <<req, reply>>

\* a call arrives on an idle thread
Begin(w) ==
  /\ pc[w] = "idle"
  /\ calls < MaxCalls
  /\ calls' = calls + 1

\* the call is rejected before it touches any state beyond what it read
Reject(w, r) ==
  /\ reply' = [reply EXCEPT ![w] = r]
  /\ UNCHANGED <<pc, req, loc>>

\* the call is accepted and continues at p with locals l
Enter(w, r, p, l) ==
  /\ pc' = [pc EXCEPT ![w] = p]
  /\ req' = [req EXCEPT ![w] = r]
  /\ loc' = [loc EXCEPT ![w] = l]
  /\ reply' = [reply EXCEPT ![w] = NoReply]

\* server.py ends a successful handler with MONITORING.log_transaction;
\* billing_core.py returns at once
Finish(w, r) ==
  IF service = "server"
    THEN /\ pc' = [pc EXCEPT ![w] = "log_transaction"]
         /\ loc' = [loc EXCEPT ![w] = [balance |-> 0, result |-> r]]
         /\ UNCHANGED <<req, reply>>
    ELSE Return(w, r)

\* the balance read without the comparison against the cost
AfterBalanceRead_NoCompare(w, r, cost, p, l) ==
  IF service = "server" /\ l.balance < LOW_BALANCE
    THEN Enter(w, r, "check_user_balance", [l EXCEPT !.next = p])
    ELSE Enter(w, r, p, l)

\* after the balance read of Charge and Reserve: server.py calls
\* MONITORING.check_user_balance, which takes the monitoring lock when the
\* balance is low; then the handler compares the balance with the cost
AfterBalanceRead(w, r, cost, p, l) ==
  IF service = "server" /\ l.balance < LOW_BALANCE
    THEN Enter(w, r, "check_user_balance", [l EXCEPT !.next = p])
    ELSE IF l.balance < cost
      THEN Reject(w, Failure(r.op, "Insufficient balance"))
      ELSE Enter(w, r, p, l)

\* ------------------------------------------------------------------ Charge
ChargeStart(w, user_id, model, tokens_used, cost, auth) ==
  /\ Begin(w)
  /\ UNCHANGED <<service, exchange, pricing_vars, now, events, store, monitor>>
  /\ IF ~auth THEN Reject(w, Failure("Charge", "UNAUTHENTICATED"))
     ELSE IF tokens_used <= 0 \/ cost <= 0
       THEN Reject(w, Failure("Charge", "INVALID_ARGUMENT"))
     ELSE AfterBalanceRead(w,
            [op |-> "Charge", user_id |-> user_id, model |-> model,
             tokens_used |-> tokens_used, cost |-> cost],
            cost, "charge_set",
            [balance |-> GetBalance(user_id), next |-> "charge_set", cost |-> cost])

\* the debit that answers without writing the log entry
ChargeSet_SkipsLog(w) ==
  /\ pc[w] = "charge_set"
  /\ balance' = Put(balance, req[w].user_id, loc[w].balance - req[w].cost)
  /\ Goto(w, "charge_hincrby_user", loc[w])
  /\ UNCHANGED <<service, exchange, pricing_vars, now, events, calls, reservation, expires, billing_log,
                 billing_adjustments, billing_deposits, billing_alerts, usage, monitor>>

\* the debit of the token count instead of the cost
ChargeSet_DebitsTokens(w) ==
  /\ pc[w] = "charge_set"
  /\ balance' = Put(balance, req[w].user_id, loc[w].balance - req[w].tokens_used)
  /\ Goto(w, "charge_xadd", loc[w])
  /\ UNCHANGED <<service, exchange, pricing_vars, now, events, calls, reservation, expires, billing_log,
                 billing_adjustments, billing_deposits, billing_alerts, usage, monitor>>

ChargeSet(w) ==
  /\ pc[w] = "charge_set"
  /\ balance' = Put(balance, req[w].user_id, loc[w].balance - req[w].cost)
  /\ Goto(w, "charge_xadd", loc[w])
  /\ UNCHANGED <<service, exchange, pricing_vars, now, events, calls, reservation, expires, billing_log,
                 billing_adjustments, billing_deposits, billing_alerts, usage, monitor>>

\* the log entry written with the balance read before the debit
ChargeXadd_OldBalance(w) ==
  /\ pc[w] = "charge_xadd"
  /\ billing_log' = Append(billing_log,
       [user_id |-> req[w].user_id, model |-> req[w].model,
        tokens_used |-> req[w].tokens_used, cost_usd |-> req[w].cost,
        balance_usd |-> loc[w].balance])
  /\ Goto(w, "charge_hincrby_user", loc[w])
  /\ UNCHANGED <<service, exchange, pricing_vars, now, events, calls, balance, reservation, expires,
                 billing_adjustments, billing_deposits, billing_alerts, usage, monitor>>

ChargeXadd(w) ==
  /\ pc[w] = "charge_xadd"
  /\ billing_log' = Append(billing_log,
       [user_id |-> req[w].user_id, model |-> req[w].model,
        tokens_used |-> req[w].tokens_used, cost_usd |-> req[w].cost,
        balance_usd |-> loc[w].balance - req[w].cost])
  /\ Goto(w, "charge_hincrby_user", loc[w])
  /\ UNCHANGED <<service, exchange, pricing_vars, now, events, calls, balance, reservation, expires,
                 billing_adjustments, billing_deposits, billing_alerts, usage, monitor>>

HIncrBy(h, k, n) == Put(h, k, (IF k \in DOMAIN h THEN h[k] ELSE 0) + n)
UserUsageKey(user_id, model, field) == <<"usage", user_id, model, field>>
DailyUsageKey(model) == <<"usage:daily", now \div 86400, model>>

ChargeHincrby(w) ==
  /\ pc[w] \in {"charge_hincrby_user", "charge_hincrby_daily"}
  /\ UNCHANGED <<service, exchange, pricing_vars, now, events, calls, balance, reservation, expires,
                 billing_log, billing_adjustments, billing_deposits, billing_alerts,
                 monitor>>
  /\ IF pc[w] = "charge_hincrby_user"
       THEN /\ usage' = HIncrBy(usage, UserUsageKey(req[w].user_id, req[w].model, "direct"),
                                req[w].tokens_used)
            /\ Goto(w, "charge_hincrby_daily", loc[w])
       ELSE /\ usage' = HIncrBy(usage, DailyUsageKey(req[w].model), req[w].tokens_used)
            /\ Finish(w, Success("Charge", req[w].cost, loc[w].balance - req[w].cost, NoId))

\* ----------------------------------------------------------------- Reserve
\* the cost check that lets a cost of zero pass
InvalidPricingCalculation_Negative(estimated_cost) == estimated_cost < 0

\* if estimated_cost <= 0: raise PricingError("Invalid pricing calculation")
InvalidPricingCalculation(estimated_cost) == estimated_cost <= 0

ReserveStart(w, user_id, request_id, model, endpoint, input_tokens, output_tokens, auth) ==
  /\ Begin(w)
  /\ UNCHANGED <<service, exchange, pricing_vars, now, events, store, monitor>>
  /\ LET estimated_cost == calculate_cost(PRICING_MANAGER.pricing, model, endpoint,
                                          input_tokens, output_tokens)
     IN IF ~auth THEN Reject(w, Failure("Reserve", "UNAUTHENTICATED"))
        ELSE IF input_tokens <= 0 \/ output_tokens < 0
          THEN Reject(w, Failure("Reserve", "INVALID_ARGUMENT"))
        ELSE IF PricingMiss(PRICING_MANAGER.pricing, model, endpoint)
          \* the PricingError leaves the decorated calculate_cost as an
          \* unexpected error of the handler
          THEN Reject(w, Failure("Reserve", "INTERNAL"))
        ELSE IF InvalidPricingCalculation(estimated_cost)
          THEN Reject(w, Failure("Reserve", "Invalid pricing calculation"))
        ELSE AfterBalanceRead(w,
               [op |-> "Reserve", user_id |-> user_id, request_id |-> request_id,
                model |-> model, endpoint |-> endpoint,
                input_tokens |-> input_tokens, output_tokens |-> output_tokens],
               estimated_cost, "reserve_hmset",
               [balance |-> GetBalance(user_id), next |-> "reserve_hmset",
                cost |-> estimated_cost, reservation_id |-> NoId])

\* reservation_id = f"res:{user_id}:{request_id}:{int(time.time())}"
ReservationId(user_id, request_id, t) == <<user_id, request_id, t>>

\* r.hmset(key, mapping): sets the given fields of the hash, keeps the others
HMSet(key, mapping) ==
  Put(reservation, key,
      IF key \in DOMAIN reservation THEN mapping @@ reservation[key] ELSE mapping)

\* r.expire(key, ttl): a no-op on a missing key
Expire(key, ttl) ==
  IF key \in DOMAIN reservation THEN Put(expires, key, now + ttl) ELSE expires

ReserveHmset(w) ==
  /\ pc[w] = "reserve_hmset"
  /\ LET reservation_id == ReservationId(req[w].user_id, req[w].request_id, now)
     IN /\ reservation' = HMSet(reservation_id,
             [user_id |-> req[w].user_id, model |-> req[w].model,
              endpoint |-> req[w].endpoint, input_tokens |-> req[w].input_tokens,
              output_tokens |-> req[w].output_tokens,
              estimated_cost |-> loc[w].cost, status |-> "reserved",
              created_at |-> now])
        /\ Goto(w, "reserve_expire", [loc[w] EXCEPT !.reservation_id = reservation_id])
  /\ UNCHANGED <<service, exchange, pricing_vars, now, events, calls, balance, expires, billing_log,
                 billing_adjustments, billing_deposits, billing_alerts, usage, monitor>>

ReserveExpire(w) ==
  /\ pc[w] = "reserve_expire"
  /\ expires' = Expire(loc[w].reservation_id, RESERVATION_TTL)
  /\ Goto(w, "reserve_set", loc[w])
  /\ UNCHANGED <<service, exchange, pricing_vars, now, events, calls, balance, reservation, billing_log,
                 billing_adjustments, billing_deposits, billing_alerts, usage, monitor>>

ReserveSet(w) ==
  /\ pc[w] = "reserve_set"
  /\ balance' = Put(balance, req[w].user_id, loc[w].balance - loc[w].cost)
  /\ Finish(w, Success("Reserve", loc[w].cost, loc[w].balance - loc[w].cost,
                       loc[w].reservation_id))
  /\ UNCHANGED <<service, exchange, pricing_vars, now, events, calls, reservation, expires, billing_log,
                 billing_adjustments, billing_deposits, billing_alerts, usage, monitor>>

\* ------------------------------------------------------------------ Commit
\* Commit without the status check
CommitStart_NoStatusCheck(w, reservation_id, input_tokens_actual, output_tokens_actual, auth) ==
  /\ Begin(w)
  /\ UNCHANGED <<service, exchange, pricing_vars, now, events, store, monitor>>
  /\ IF ~auth THEN Reject(w, CommitFailure("UNAUTHENTICATED", reservation_id))
     ELSE IF reservation_id \notin DOMAIN reservation
       THEN Reject(w, CommitFailure("Reservation not found", reservation_id))
     ELSE IF ~HasField(reservation[reservation_id], "endpoint")
       THEN Reject(w, CommitFailure("INTERNAL", reservation_id))
     ELSE LET data == reservation[reservation_id]
          IN Enter(w,
               [op |-> "Commit", reservation_id |-> reservation_id,
                input_tokens_actual |-> input_tokens_actual,
                output_tokens_actual |-> output_tokens_actual],
               "commit_get",
               [balance |-> 0, user_id |-> data.user_id, model |-> data.model,
                endpoint |-> data.endpoint, estimated_cost |-> data.estimated_cost,
                actual_cost |-> calculate_cost(PRICING_MANAGER.pricing, data.model, data.endpoint,
                                               input_tokens_actual, output_tokens_actual)])

CommitStart(w, reservation_id, input_tokens_actual, output_tokens_actual, auth) ==
  /\ Begin(w)
  /\ UNCHANGED <<service, exchange, pricing_vars, now, events, store, monitor>>
  /\ IF ~auth THEN Reject(w, CommitFailure("UNAUTHENTICATED", reservation_id))
     ELSE IF input_tokens_actual <= 0 \/ output_tokens_actual < 0
       THEN Reject(w, CommitFailure("INVALID_ARGUMENT", reservation_id))
     ELSE IF reservation_id \notin DOMAIN reservation
       THEN Reject(w, CommitFailure("Reservation not found", reservation_id))
     ELSE IF HGet(reservation[reservation_id], "status", "") = "committed"
       THEN Reject(w, CommitFailure("Already committed", reservation_id))
     ELSE IF ~HasField(reservation[reservation_id], "endpoint")
       \* a hash without the Reserve fields: calculate_cost(None, None, ..) raises
       THEN Reject(w, CommitFailure("INTERNAL", reservation_id))
     ELSE LET data == reservation[reservation_id]
          IN Enter(w,
               [op |-> "Commit", reservation_id |-> reservation_id,
                input_tokens_actual |-> input_tokens_actual,
                output_tokens_actual |-> output_tokens_actual],
               "commit_get",
               [balance |-> 0, user_id |-> data.user_id, model |-> data.model,
                endpoint |-> data.endpoint, estimated_cost |-> data.estimated_cost,
                actual_cost |-> calculate_cost(PRICING_MANAGER.pricing, data.model, data.endpoint,
                                               input_tokens_actual, output_tokens_actual)])

CommitGet(w) ==
  /\ pc[w] = "commit_get"
  /\ Goto(w, "commit_set", [loc[w] EXCEPT !.balance = GetBalance(loc[w].user_id)])
  /\ UNCHANGED <<service, exchange, pricing_vars, now, events, calls, store, monitor>>

\* the new balance without the refund of the estimate
CommitNewBalance_NoRefund(l) == l.balance - l.actual_cost

\* new_balance = balance + (estimated_cost - actual_cost)
CommitNewBalance(l) == l.balance + (l.estimated_cost - l.actual_cost)

CommitSet(w) ==
  /\ pc[w] = "commit_set"
  /\ balance' = Put(balance, loc[w].user_id, CommitNewBalance(loc[w]))
  /\ Goto(w, "commit_hset_status", loc[w])
  /\ UNCHANGED <<service, exchange, pricing_vars, now, events, calls, reservation, expires, billing_log,
                 billing_adjustments, billing_deposits, billing_alerts, usage, monitor>>

\* r.hset(key, field, value): creates the hash when the key is missing
HSet(key, field, value) ==
  Put(reservation, key,
      IF key \in DOMAIN reservation THEN Put(reservation[key], field, value)
                                    ELSE field :> value)

CommitHset(w) ==
  /\ pc[w] \in {"commit_hset_status", "commit_hset_actual_cost",
                "commit_hset_input", "commit_hset_output"}
  /\ UNCHANGED <<service, exchange, pricing_vars, now, events, calls, balance, expires, billing_log,
                 billing_adjustments, billing_deposits, billing_alerts, usage, monitor>>
  /\ CASE pc[w] = "commit_hset_status" ->
            /\ reservation' = HSet(req[w].reservation_id, "status", "committed")
            /\ Goto(w, "commit_hset_actual_cost", loc[w])
       [] pc[w] = "commit_hset_actual_cost" ->
            /\ reservation' = HSet(req[w].reservation_id, "actual_cost", loc[w].actual_cost)
            /\ Goto(w, "commit_hset_input", loc[w])
       [] pc[w] = "commit_hset_input" ->
            /\ reservation' = HSet(req[w].reservation_id, "input_tokens_actual",
                                   req[w].input_tokens_actual)
            /\ Goto(w, "commit_hset_output", loc[w])
       [] pc[w] = "commit_hset_output" ->
            /\ reservation' = HSet(req[w].reservation_id, "output_tokens_actual",
                                   req[w].output_tokens_actual)
            /\ Goto(w, "commit_expire", loc[w])

CommitExpire(w) ==
  /\ pc[w] = "commit_expire"
  /\ expires' = Expire(req[w].reservation_id, COMMITTED_TTL)
  /\ Goto(w, "commit_xadd", loc[w])
  /\ UNCHANGED <<service, exchange, pricing_vars, now, events, calls, balance, reservation, billing_log,
                 billing_adjustments, billing_deposits, billing_alerts, usage, monitor>>

CommitXadd(w) ==
  /\ pc[w] = "commit_xadd"
  /\ billing_log' = Append(billing_log,
       [user_id |-> loc[w].user_id, model |-> loc[w].model, endpoint |-> loc[w].endpoint,
        input_tokens |-> req[w].input_tokens_actual,
        output_tokens |-> req[w].output_tokens_actual,
        cost_usd |-> loc[w].actual_cost, balance_usd |-> CommitNewBalance(loc[w]),
        reservation_id |-> req[w].reservation_id])
  /\ Goto(w, "commit_hincrby_user", loc[w])
  /\ UNCHANGED <<service, exchange, pricing_vars, now, events, calls, balance, reservation, expires,
                 billing_adjustments, billing_deposits, billing_alerts, usage, monitor>>

CommitHincrby(w) ==
  /\ pc[w] \in {"commit_hincrby_user", "commit_hincrby_daily"}
  /\ UNCHANGED <<service, exchange, pricing_vars, now, events, calls, balance, reservation, expires,
                 billing_log, billing_adjustments, billing_deposits, billing_alerts,
                 monitor>>
  /\ LET tokens == req[w].input_tokens_actual + req[w].output_tokens_actual
     IN IF pc[w] = "commit_hincrby_user"
          THEN /\ usage' = HIncrBy(usage,
                    UserUsageKey(loc[w].user_id, loc[w].model, loc[w].endpoint), tokens)
               /\ Goto(w, "commit_hincrby_daily", loc[w])
          ELSE /\ usage' = HIncrBy(usage, DailyUsageKey(loc[w].model), tokens)
               /\ Finish(w, Success("Commit", loc[w].actual_cost,
                                    CommitNewBalance(loc[w]), req[w].reservation_id))

\* ----------------------------------------------------------- AdjustBalance
\* no statement of AdjustBalance reads the request metadata: auth, whether the
\* call carries a valid token, has no influence
AdjustStart(w, user_id, amount_usd, auth) ==
  /\ Begin(w)
  /\ UNCHANGED <<service, exchange, pricing_vars, now, events, store, monitor>>
  /\ IF ~validate_amount(amount_usd)
       THEN Reject(w, Failure("AdjustBalance", "INVALID_ARGUMENT"))
       ELSE Enter(w, [op |-> "AdjustBalance", user_id |-> user_id,
                      amount_usd |-> amount_usd * UNITS_PER_USD],
                  "adjust_set", [balance |-> GetBalance(user_id)])

\* the new balance written to every balance key
AdjustSet_AllUsers(w) ==
  /\ pc[w] = "adjust_set"
  /\ balance' = [u \in DOMAIN balance \cup {req[w].user_id} |->
                   loc[w].balance + req[w].amount_usd]
  /\ Goto(w, "adjust_xadd", loc[w])
  /\ UNCHANGED <<service, exchange, pricing_vars, now, events, calls, reservation, expires, billing_log,
                 billing_adjustments, billing_deposits, billing_alerts, usage, monitor>>

AdjustSet(w) ==
  /\ pc[w] = "adjust_set"
  /\ balance' = Put(balance, req[w].user_id, loc[w].balance + req[w].amount_usd)
  /\ Goto(w, "adjust_xadd", loc[w])
  /\ UNCHANGED <<service, exchange, pricing_vars, now, events, calls, reservation, expires, billing_log,
                 billing_adjustments, billing_deposits, billing_alerts, usage, monitor>>

AdjustXadd(w) ==
  /\ pc[w] = "adjust_xadd"
  /\ billing_adjustments' = Append(billing_adjustments,
       [user_id |-> req[w].user_id, amount_usd |-> req[w].amount_usd])
  /\ Finish(w, Success("AdjustBalance", req[w].amount_usd,
                       loc[w].balance + req[w].amount_usd, NoId))
  /\ UNCHANGED <<service, exchange, pricing_vars, now, events, calls, balance, reservation, expires,
                 billing_log, billing_deposits, billing_alerts, usage, monitor>>

\* ------------------------------------------------- deposit (Stripe webhook)
\* amount_usd = Decimal(session.amount_total) / 100
DepositStart(w, user_id, amount_total) ==
  /\ Begin(w)
  /\ UNCHANGED <<service, exchange, pricing_vars, now, events, store, monitor>>
  /\ Enter(w, [op |-> "Deposit", user_id |-> user_id,
               amount_usd |-> CentsToUnits(amount_total)],
           "deposit_set", [balance |-> GetBalance(user_id)])

DepositSet(w) ==
  /\ pc[w] = "deposit_set"
  /\ balance' = Put(balance, req[w].user_id, loc[w].balance + req[w].amount_usd)
  /\ Goto(w, "deposit_xadd", loc[w])
  /\ UNCHANGED <<service, exchange, pricing_vars, now, events, calls, reservation, expires, billing_log,
                 billing_adjustments, billing_deposits, billing_alerts, usage, monitor>>

DepositXadd(w) ==
  /\ pc[w] = "deposit_xadd"
  /\ billing_deposits' = Append(billing_deposits,
       [user_id |-> req[w].user_id, amount_usd |-> req[w].amount_usd])
  /\ Return(w, Success("Deposit", req[w].amount_usd,
                       loc[w].balance + req[w].amount_usd, NoId))
  /\ UNCHANGED <<service, exchange, pricing_vars, now, events, calls, balance, reservation, expires,
                 billing_log, billing_adjustments, billing_alerts, usage, monitor>>

\* -------------------------------------------------------------- GetBalance
\* GetBalance up to the response: no token is asked for; the balance is read
\* and server.py calls MONITORING.check_user_balance
GetBalanceStart(w, user_id) ==
  /\ Begin(w)
  /\ UNCHANGED <<service, exchange, pricing_vars, now, events, store, monitor>>
  /\ LET r == [op |-> "GetBalance", user_id |-> user_id]
         l == [balance |-> GetBalance(user_id), next |-> "get_balance_return", cost |-> 0]
     IN IF service = "server" /\ l.balance < LOW_BALANCE
          THEN Enter(w, r, "check_user_balance", l)
          ELSE Enter(w, r, "get_balance_return", l)

\* balance * rate, in units, the fraction of a unit dropped (the product is
\* taken in two parts to stay inside the integers of the checker)
Convert(bal, rate) ==
  (bal \div RATE_SCALE) * rate + ((bal % RATE_SCALE) * rate) \div RATE_SCALE

\* a missing rate fails the call
GetBalanceResponse_Raises(bal, rates) ==
  IF {"RUB", "EUR"} \subseteq DOMAIN rates
    THEN [op |-> "GetBalance", ok |-> TRUE, error |-> "", amount |-> 0, balance |-> bal,
          reservation_id |-> NoId,
          balance_rub |-> Convert(bal, rates["RUB"].rate),
          balance_eur |-> Convert(bal, rates["EUR"].rate)]
    ELSE [Failure("GetBalance", "INVALID_ARGUMENT") EXCEPT !.balance = bal]

\* the GetBalanceResponse: the balance, and the balance times the rates of
\* RUB and EUR; a rate that is missing makes both presentation amounts 0
GetBalanceResponse(bal, rates) ==
  [op |-> "GetBalance", ok |-> TRUE, error |-> "", amount |-> 0, balance |-> bal,
   reservation_id |-> NoId,
   balance_rub |-> IF {"RUB", "EUR"} \subseteq DOMAIN rates
                     THEN Convert(bal, rates["RUB"].rate) ELSE 0,
   balance_eur |-> IF {"RUB", "EUR"} \subseteq DOMAIN rates
                     THEN Convert(bal, rates["EUR"].rate) ELSE 0]

GetBalanceReturn(w) ==
  /\ pc[w] = "get_balance_return"
  /\ Return(w, GetBalanceResponse(loc[w].balance, EXCHANGE_MANAGER.rates))
  /\ UNCHANGED <<service, exchange, pricing_vars, now, events, calls, store, monitor>>

\* -------------------------------------------------------------- monitoring
\* MonitoringSystem.check_user_balance with a balance under the threshold:
\* trigger_alert takes the lock, stamps last_alert and sends the alert to the
\* stream billing:alerts.  No cooldown is consulted on this path.  The entry
\* carries the metrics dict as a field value: the Redis client either refuses
\* it (the exception is caught and logged) or serialises and stores it.
TriggerAlert(w) ==
  /\ pc[w] = "check_user_balance"
  /\ monlock = NoLock
  /\ monlock' = NoLock
  /\ metrics' = [metrics EXCEPT !.last_alert = time_time]
  /\ \E stored \in BOOLEAN :
       billing_alerts' =
         IF stored
           THEN Append(billing_alerts,
                  [message |-> "Low balance", user_id |-> req[w].user_id,
                   timestamp |-> time_time])
           ELSE billing_alerts
  /\ IF req[w].op \in {"Charge", "Reserve"} /\ loc[w].balance < loc[w].cost
       THEN Return(w, Failure(req[w].op, "Insufficient balance"))
       ELSE Goto(w, loc[w].next, loc[w])
  /\ UNCHANGED <<service, exchange, pricing_vars, now, events, calls, balance, reservation, expires,
                 billing_log, billing_adjustments, billing_deposits, usage>>

\* MonitoringSystem.log_transaction(tx_type, amount, success=True): it takes
\* the lock, counts, and calls check_alerts, whose `with self.lock:` asks for
\* the lock the same thread holds.  threading.Lock is not reentrant: a thread
\* at "check_alerts" has no further step, and the lock stays taken.
LogTransaction(w) ==
  /\ pc[w] = "log_transaction"
  /\ monlock = NoLock
  /\ monlock' = w
  /\ LET r == loc[w].result
     IN metrics' = [metrics EXCEPT
          !.total_requests = @ + 1,
          !.successful_requests = @ + 1,
          !.total_charges = IF r.op = "Charge" /\ r.amount # 0 THEN @ + r.amount ELSE @,
          !.total_reservations = IF r.op = "Reserve" THEN @ + 1 ELSE @,
          !.total_commits = IF r.op = "Commit" THEN @ + 1 ELSE @]
  /\ Goto(w, "check_alerts", loc[w])
  /\ UNCHANGED <<service, exchange, pricing_vars, now, events, calls, store>>

\* ------------------------------------------------------------- environment
\* the clock moves; Redis drops the keys whose deadline has passed
Tick(dt) ==
  /\ events < MaxEvents
  /\ events' = events + 1
  /\ now' = now + dt
  /\ LET dead == {k \in DOMAIN expires : expires[k] <= now + dt}
         live == DOMAIN reservation \ dead
     IN /\ reservation' = IF live = {} THEN <<>> ELSE [k \in live |-> reservation[k]]
        /\ expires' = IF DOMAIN expires \subseteq dead THEN <<>>
                      ELSE [k \in DOMAIN expires \ dead |-> expires[k]]
  /\ UNCHANGED <<service, exchange, pricing_vars, calls, balance, billing_log, billing_adjustments,
                 billing_deposits, billing_alerts, usage, monitor, threads>>

WriteSteps ==
  {"charge_set", "charge_xadd", "charge_hincrby_user", "charge_hincrby_daily",
   "reserve_hmset", "reserve_expire", "reserve_set",
   "commit_get", "commit_set", "commit_hset_status", "commit_hset_actual_cost",
   "commit_hset_input", "commit_hset_output", "commit_expire", "commit_xadd",
   "commit_hincrby_user", "commit_hincrby_daily",
   "adjust_set", "adjust_xadd", "deposit_set", "deposit_xadd"}

\* the Redis command a thread is about to send raises (connection error): the
\* command is not applied and the handler's except clauses shape the reply
RedisError(w) ==
  /\ pc[w] \in WriteSteps
  /\ events < MaxEvents
  /\ events' = events + 1
  /\ Return(w,
       IF pc[w] \in {"reserve_hmset", "reserve_expire"}
         THEN Failure("Reserve", "Failed to create reservation")
       ELSE IF pc[w] \in {"commit_hset_status", "commit_hset_actual_cost",
                          "commit_hset_input", "commit_hset_output", "commit_expire"}
         THEN CommitFailure("Failed to update reservation", req[w].reservation_id)
       ELSE IF req[w].op = "Commit"
         THEN CommitFailure("INTERNAL", req[w].reservation_id)
       ELSE Failure(req[w].op, "INTERNAL"))
  /\ UNCHANGED <<service, exchange, pricing_vars, now, calls, store, monitor>>

\* the process stops and is started again: Redis keeps its data, the request
\* threads and the MonitoringSystem object are gone
Crash ==
  /\ \E w \in Workers : pc[w] # "idle"
  /\ events < MaxEvents
  /\ events' = events + 1
  /\ pc' = [w \in Workers |-> "idle"]
  /\ req' = [w \in Workers |-> NoReq]
  /\ loc' = [w \in Workers |-> NoLoc]
  /\ reply' = [w \in Workers |-> IF pc[w] = "idle" THEN reply[w] ELSE NoReply]
  /\ metrics' = InitMetrics
  /\ monlock' = NoLock
  /\ UNCHANGED <<service, exchange, pricing_vars, now, calls, store>>

\* the reservation ids a client can send: those in the store and those a
\* thread has computed or returned
KnownIds ==
  DOMAIN reservation
    \cup {reply[w].reservation_id : w \in {x \in Workers : reply[x].reservation_id # NoId}}

Next ==
  \/ \E w \in Workers, u \in Users, m \in Models, c \in ChargeInputs, a \in BOOLEAN :
        ChargeStart(w, u, m, c[1], c[2], a)
  \/ \E w \in Workers : ChargeSet(w)
  \/ \E w \in Workers : ChargeXadd(w)
  \/ \E w \in Workers : ChargeHincrby(w)
  \/ \E w \in Workers, u \in Users, q \in RequestIds, m \in Models, e \in Endpoints,
        t \in ReserveTokens, a \in BOOLEAN : ReserveStart(w, u, q, m, e, t[1], t[2], a)
  \/ \E w \in Workers : ReserveHmset(w)
  \/ \E w \in Workers : ReserveExpire(w)
  \/ \E w \in Workers : ReserveSet(w)
  \/ \E w \in Workers, id \in KnownIds, t \in CommitTokens, a \in BOOLEAN : CommitStart(w, id, t[1], t[2], a)
  \/ \E w \in Workers : CommitGet(w)
  \/ \E w \in Workers : CommitSet(w)
  \/ \E w \in Workers : CommitHset(w)
  \/ \E w \in Workers : CommitExpire(w)
  \/ \E w \in Workers : CommitXadd(w)
  \/ \E w \in Workers : CommitHincrby(w)
  \/ \E w \in Workers, u \in Users, x \in AdjustAmounts, a \in BOOLEAN :
        AdjustStart(w, u, x, a)
  \/ \E w \in Workers : AdjustSet(w)
  \/ \E w \in Workers : AdjustXadd(w)
  \/ \E w \in Workers, u \in Users, x \in DepositCents : DepositStart(w, u, x)
  \/ \E w \in Workers : DepositSet(w)
  \/ \E w \in Workers : DepositXadd(w)
  \/ \E w \in Workers : TriggerAlert(w)
  \/ \E w \in Workers : LogTransaction(w)
  \/ \E dt \in TickSteps : Tick(dt)
  \/ \E w \in Workers : RedisError(w)
  \/ Crash

Spec == Init /\ [][Next]_vars

\* ------------------------------------------------ the handlers, scheduled
\* the next step of the handler that thread w runs
Continue(w) ==
  \/ ChargeSet(w) \/ ChargeXadd(w) \/ ChargeHincrby(w)
  \/ ReserveHmset(w) \/ ReserveExpire(w) \/ ReserveSet(w)
  \/ CommitGet(w) \/ CommitSet(w) \/ CommitHset(w) \/ CommitExpire(w)
  \/ CommitXadd(w) \/ CommitHincrby(w)
  \/ AdjustSet(w) \/ AdjustXadd(w)
  \/ DepositSet(w) \/ DepositXadd(w)
  \/ TriggerAlert(w) \/ LogTransaction(w)

\* a call arrives
Arrive ==
  \/ \E w \in Workers, u \in Users, m \in Models, c \in ChargeInputs, a \in BOOLEAN :
        ChargeStart(w, u, m, c[1], c[2], a)
  \/ \E w \in Workers, u \in Users, q \in RequestIds, m \in Models, e \in Endpoints,
        t \in ReserveTokens, a \in BOOLEAN : ReserveStart(w, u, q, m, e, t[1], t[2], a)
  \/ \E w \in Workers, id \in KnownIds, t \in CommitTokens, a \in BOOLEAN : CommitStart(w, id, t[1], t[2], a)
  \/ \E w \in Workers, u \in Users, x \in AdjustAmounts, a \in BOOLEAN :
        AdjustStart(w, u, x, a)
  \/ \E w \in Workers, u \in Users, x \in DepositCents : DepositStart(w, u, x)

NextLive == Arrive \/ \E w \in Workers : Continue(w)

\* The handlers with a store that answers and a clock that stands still:
\* the operating system schedules every thread that can take a step (a
\* thread of the pool is never starved), while calls arrive as they like.
SpecLive ==
  /\ Init
  /\ [][NextLive]_vars
  /\ \A w \in Workers : WF_vars(Continue(w))

\* --------------------------------------------------------------- two users
AllUsers == {"usr1", "usr2"}

\* both users hold a deposit of DepositCents made through the webhook
InitUsers ==
  /\ service \in Services
  /\ EXCHANGE_MANAGER = ExchangeRateManagerInit
  /\ exchange_rates = NoExchangeKeys
  /\ PricingInit
  /\ now = 0 /\ events = 0 /\ calls = 0
  /\ \E c \in DepositCents :
       /\ balance = [u \in AllUsers |-> CentsToUnits(c)]
       /\ billing_deposits = <<[user_id |-> "usr1", amount_usd |-> CentsToUnits(c)],
                               [user_id |-> "usr2", amount_usd |-> CentsToUnits(c)]>>
  /\ reservation = <<>> /\ expires = <<>>
  /\ billing_log = <<>> /\ billing_adjustments = <<>>
  /\ billing_alerts = <<>>
  /\ usage = <<>>
  /\ metrics = InitMetrics /\ monlock = NoLock
  /\ pc = [w \in Workers |-> "idle"]
  /\ req = [w \in Workers |-> NoReq]
  /\ loc = [w \in Workers |-> NoLoc]
  /\ reply = [w \in Workers |-> NoReply]

\* a call for either user arrives (with a valid token where one is asked for)
ArriveUsers ==
  \/ \E w \in Workers, u \in AllUsers, m \in Models, c \in ChargeInputs :
        ChargeStart(w, u, m, c[1], c[2], TRUE)
  \/ \E w \in Workers, u \in AllUsers, q \in RequestIds, m \in Models, e \in Endpoints,
        t \in ReserveTokens : ReserveStart(w, u, q, m, e, t[1], t[2], TRUE)
  \/ \E w \in Workers, id \in KnownIds, t \in CommitTokens : CommitStart(w, id, t[1], t[2], TRUE)
  \/ \E w \in Workers, u \in AllUsers, x \in AdjustAmounts : AdjustStart(w, u, x, TRUE)
  \/ \E w \in Workers, u \in AllUsers : GetBalanceStart(w, u)
  \/ \E w \in Workers, u \in AllUsers, x \in DepositCents : DepositStart(w, u, x)

NextUsers ==
  \/ ArriveUsers
  \/ \E w \in Workers : Continue(w)
  \/ \E w \in Workers : GetBalanceReturn(w)

SpecUsers == InitUsers /\ [][NextUsers]_vars

\* ------------------------------------------------- the cost function alone
\* a thread about to evaluate calculate_cost(model, endpoint, input_t, output_t)
InitCost ==
  /\ service = "server"
  /\ EXCHANGE_MANAGER = ExchangeRateManagerInit
  /\ exchange_rates = NoExchangeKeys
  /\ PricingInit
  /\ now = 0 /\ events = 0 /\ calls = 0
  /\ balance = <<>> /\ billing_deposits = <<>>
  /\ reservation = <<>> /\ expires = <<>>
  /\ billing_log = <<>> /\ billing_adjustments = <<>>
  /\ billing_alerts = <<>>
  /\ usage = <<>>
  /\ metrics = InitMetrics /\ monlock = NoLock
  /\ \E m \in CostModels, e \in CostEndpoints, i \in CostTokens, o \in CostTokens :
       req = [w \in Workers |->
                IF w = "w1"
                  THEN [op |-> "calculate_cost", model |-> m, endpoint |-> e,
                        input_t |-> i, output_t |-> o]
                  ELSE NoReq]
  /\ pc = [w \in Workers |-> IF w = "w1" THEN "calculate_cost" ELSE "idle"]
  /\ loc = [w \in Workers |-> NoLoc]
  /\ reply = [w \in Workers |-> NoReply]

\* the body of BillingService.calculate_cost: the cost, or PricingError
CalculateCost(w) ==
  /\ pc[w] = "calculate_cost"
  /\ pc' = [pc EXCEPT ![w] = "idle"]
  /\ reply' = [reply EXCEPT ![w] =
       IF PricingMiss(PRICING_MANAGER.pricing, req[w].model, req[w].endpoint)
         THEN Failure("calculate_cost", "Failed to calculate price")
         ELSE Success("calculate_cost",
                      calculate_cost(PRICING_MANAGER.pricing, req[w].model, req[w].endpoint,
                                     req[w].input_t, req[w].output_t),
                      0, NoId)]
  /\ UNCHANGED <<service, exchange, pricing_vars, now, events, calls, store, monitor, req, loc>>

NextCost == \E w \in Workers : CalculateCost(w)

SpecCost == InitCost /\ [][NextCost]_vars

\* ------------------------------------------- exchange-rate table operations
\* The state when the exchange service starts to serve: the manager as
\* constructed, the store without exchange keys (and with or without one
\* deposit), the clock one update interval after the start.
InitExchange ==
  /\ service = "server"
  /\ EXCHANGE_MANAGER = ExchangeRateManagerInit
  /\ exchange_rates = NoExchangeKeys
  /\ PricingInit
  /\ now = UPDATE_INTERVAL /\ events = 0 /\ calls = 0
  /\ \E u \in Users, c \in InitialDeposits :
       IF c = 0
         THEN balance = <<>> /\ billing_deposits = <<>>
         ELSE /\ balance = (u :> CentsToUnits(c))
              /\ billing_deposits = <<[user_id |-> u, amount_usd |-> CentsToUnits(c)]>>
  /\ reservation = <<>> /\ expires = <<>>
  /\ billing_log = <<>> /\ billing_adjustments = <<>>
  /\ billing_alerts = <<>>
  /\ usage = <<>>
  /\ metrics = InitMetrics /\ monlock = NoLock
  /\ pc = [w \in Workers |-> "idle"]
  /\ req = [w \in Workers |-> NoReq]
  /\ loc = [w \in Workers |-> NoLoc]
  /\ reply = [w \in Workers |-> NoReply]

ExchangeFrame == UNCHANGED <<service, pricing_vars, now, events, store, monitor>>

\* the tail of a locked body: json.dumps of the table (TypeError on a
\* Decimal, which leaves the manager as changed and the store as it was),
\* then the r.set calls of keys, then return True
SaveAndReturn(w, op, m, keys) ==
  /\ EXCHANGE_MANAGER' = m
  /\ IF JsonSerializable(m.rates)
       THEN /\ exchange_rates' =
                 [k \in DOMAIN exchange_rates |->
                    IF k \notin keys THEN exchange_rates[k]
                    ELSE IF k = "current" THEN JsonRoundTrip(m.rates)
                    ELSE IF k = "last_updated" THEN m.last_updated
                    ELSE m.supported_currencies]
            /\ Return(w, Success(op, 0, 0, NoId))
       ELSE /\ UNCHANGED exchange_rates
            /\ Return(w, Failure(op, "TypeError"))

\* fetch_exchange_rates: the whole body runs under self.lock
FetchExchangeRates(w, feed) ==
  /\ Begin(w)
  /\ ExchangeFrame
  /\ IF feed.status = "timeout"
       THEN /\ Return(w, Failure("fetch_exchange_rates", "Failed to fetch exchange rates"))
            /\ UNCHANGED exchange
     ELSE IF feed.status = "no_rates"
       THEN /\ Return(w, Failure("fetch_exchange_rates", "Failed to update exchange rates"))
            /\ UNCHANGED exchange
     ELSE SaveAndReturn(w, "fetch_exchange_rates",
            [EXCHANGE_MANAGER EXCEPT !.rates = NewRates(EXCHANGE_MANAGER, feed.rates),
                                     !.last_updated = now],
            {"current", "last_updated", "supported"})

\* load_from_redis: the whole body runs under self.lock
LoadFromRedis(w) ==
  /\ Begin(w)
  /\ ExchangeFrame
  /\ UNCHANGED exchange_rates
  /\ IF exchange_rates.current # None /\ exchange_rates.last_updated # None
       THEN /\ EXCHANGE_MANAGER' =
                 [rates |-> exchange_rates.current,
                  last_updated |-> exchange_rates.last_updated,
                  supported_currencies |->
                    IF exchange_rates.supported # None
                      THEN exchange_rates.supported
                      ELSE EXCHANGE_MANAGER.supported_currencies]
            /\ Return(w, Success("load_from_redis", 0, 0, NoId))
       ELSE /\ UNCHANGED EXCHANGE_MANAGER
            /\ Return(w, Failure("load_from_redis", "False"))

\* add_currency up to the lock: the two checks read the table unlocked
AddCurrency(w, currency, rate) ==
  /\ Begin(w)
  /\ ExchangeFrame
  /\ UNCHANGED exchange
  /\ IF currency \in DOMAIN EXCHANGE_MANAGER.rates
       THEN Reject(w, Failure("add_currency", "already exists"))
     ELSE IF ~IsAlpha3(currency)
       THEN Reject(w, Failure("add_currency", "Invalid currency code"))
     ELSE Enter(w, [op |-> "add_currency", currency |-> currency, rate |-> rate],
                "add_currency_locked", NoLoc)

\* add_currency under the lock
AddCurrencyLocked(w) ==
  /\ pc[w] = "add_currency_locked"
  /\ ExchangeFrame
  /\ UNCHANGED calls
  /\ SaveAndReturn(w, "add_currency",
       [EXCHANGE_MANAGER EXCEPT
          !.rates = Put(@, req[w].currency, Dec(req[w].rate)),
          !.supported_currencies = Append(@, req[w].currency)],
       {"current", "supported"})

\* remove_currency up to the lock: USD and USDT are refused
RemoveCurrency(w, currency) ==
  /\ Begin(w)
  /\ ExchangeFrame
  /\ UNCHANGED exchange
  /\ IF currency = "USD" \/ currency = "USDT"
       THEN Reject(w, Failure("remove_currency", "Cannot remove base currencies"))
     ELSE IF currency \notin DOMAIN EXCHANGE_MANAGER.rates
       THEN Reject(w, Failure("remove_currency", "not found"))
     ELSE Enter(w, [op |-> "remove_currency", currency |-> currency],
                "remove_currency_locked", NoLoc)

\* remove_currency under the lock: del raises KeyError when the entry went
\* away since the check, list.remove raises ValueError after the del
RemoveCurrencyLocked(w) ==
  /\ pc[w] = "remove_currency_locked"
  /\ ExchangeFrame
  /\ UNCHANGED calls
  /\ LET c == req[w].currency
         m == EXCHANGE_MANAGER
     IN IF c \notin DOMAIN m.rates
          THEN /\ Return(w, Failure("remove_currency", "KeyError"))
               /\ UNCHANGED exchange
        ELSE IF c \notin Elements(m.supported_currencies)
          THEN /\ EXCHANGE_MANAGER' = [m EXCEPT !.rates = Del(@, c)]
               /\ UNCHANGED exchange_rates
               /\ Return(w, Failure("remove_currency", "ValueError"))
        ELSE SaveAndReturn(w, "remove_currency",
               [m EXCEPT !.rates = Del(@, c),
                         !.supported_currencies = ListRemove(@, c)],
               {"current", "supported"})

\* update_currency_rate up to the lock: any currency of the table passes
UpdateCurrencyRate(w, currency, rate) ==
  /\ Begin(w)
  /\ ExchangeFrame
  /\ UNCHANGED exchange
  /\ IF currency \notin DOMAIN EXCHANGE_MANAGER.rates
       THEN Reject(w, Failure("update_currency_rate", "not found"))
       ELSE Enter(w, [op |-> "update_currency_rate", currency |-> currency,
                      rate |-> rate],
                  "update_currency_rate_locked", NoLoc)

\* update_currency_rate under the lock
UpdateCurrencyRateLocked(w) ==
  /\ pc[w] = "update_currency_rate_locked"
  /\ ExchangeFrame
  /\ UNCHANGED calls
  /\ SaveAndReturn(w, "update_currency_rate",
       [EXCHANGE_MANAGER EXCEPT
          !.rates = Put(@, req[w].currency, Dec(req[w].rate)),
          !.last_updated = now],
       {"current", "last_updated"})

NextExchange ==
  \/ \E w \in Workers, feed \in Feeds : FetchExchangeRates(w, feed)
  \/ \E w \in Workers : LoadFromRedis(w)
  \/ \E w \in Workers, c \in ExchangeCurrencies, x \in ExchangeInputRates :
        AddCurrency(w, c, x)
  \/ \E w \in Workers : AddCurrencyLocked(w)
  \/ \E w \in Workers, c \in ExchangeCurrencies : RemoveCurrency(w, c)
  \/ \E w \in Workers : RemoveCurrencyLocked(w)
  \/ \E w \in Workers, c \in ExchangeCurrencies, x \in ExchangeInputRates :
        UpdateCurrencyRate(w, c, x)
  \/ \E w \in Workers : UpdateCurrencyRateLocked(w)
  \/ \E w \in Workers, u \in Users : GetBalanceStart(w, u)
  \/ \E w \in Workers : TriggerAlert(w)
  \/ \E w \in Workers : GetBalanceReturn(w)

SpecExchange == InitExchange /\ [][NextExchange]_vars

\* ------------------------------------------------ pricing table operations
\* the table update_from_external_source installs, in 0.001 USD per
\* 1,000,000 tokens (the models of DEFAULT_PRICING that this model prices)
EXTERNAL_PRICING ==
  [m \in {"gpt-4o", "text-embedding-3-large"} |->
     IF m = "gpt-4o"
       THEN [chat_input |-> 5250, chat_output |-> 15750, embed |-> 110]
       ELSE [embed |-> 135]]

\* request bodies of POST /admin/pricing: a table, a table with a model id
\* the pattern refuses, a JSON value that is not an object, a body that is
\* not JSON
AdminBodies ==
  {[is_json |-> TRUE, is_dict |-> TRUE,
    pricing |-> ("gpt-4o" :> [chat_input |-> 6000, chat_output |-> 18000, embed |-> 120])],
   [is_json |-> TRUE, is_dict |-> TRUE, pricing |-> ("x" :> [embed |-> 1])],
   [is_json |-> TRUE, is_dict |-> FALSE, pricing |-> <<>>],
   [is_json |-> FALSE, is_dict |-> FALSE, pricing |-> <<>>]}

\* MODEL_ID_PATTERN: 2 to 64 characters; of the ids used here only "x" fails
validate_model_id(model_id) == model_id # "x"

\* the steps at which a pricing update is about to send its r.set
PricingSteps == {"admin_pricing_set", "save_to_redis"}

\* the server of server.py, freshly started on a store without the key
\* pricing:current, the user with or without one deposit
InitPricing ==
  /\ service = "server"
  /\ EXCHANGE_MANAGER = ExchangeRateManagerInit
  /\ exchange_rates = NoExchangeKeys
  /\ PricingInit
  /\ now = 0 /\ events = 0 /\ calls = 0
  /\ \E u \in Users, c \in InitialDeposits :
       IF c = 0
         THEN balance = <<>> /\ billing_deposits = <<>>
         ELSE /\ balance = (u :> CentsToUnits(c))
              /\ billing_deposits = <<[user_id |-> u, amount_usd |-> CentsToUnits(c)]>>
  /\ reservation = <<>> /\ expires = <<>>
  /\ billing_log = <<>> /\ billing_adjustments = <<>>
  /\ billing_alerts = <<>>
  /\ usage = <<>>
  /\ metrics = InitMetrics /\ monlock = NoLock
  /\ pc = [w \in Workers |-> "idle"]
  /\ req = [w \in Workers |-> NoReq]
  /\ loc = [w \in Workers |-> NoLoc]
  /\ reply = [w \in Workers |-> NoReply]

PricingFrame == UNCHANGED <<service, exchange, now, events, store, monitor>>

\* POST /admin/pricing up to the assignment of the global PRICING
AdminPricingStart(w, body, auth) ==
  /\ Begin(w)
  /\ PricingFrame
  /\ UNCHANGED <<PRICING_MANAGER, pricing_current>>
  /\ IF ~auth
       THEN Reject(w, Failure("admin_pricing", "Invalid admin key")) /\ UNCHANGED PRICING
     ELSE IF ~body.is_json
       THEN Reject(w, Failure("admin_pricing", "Invalid request format")) /\ UNCHANGED PRICING
     ELSE IF ~body.is_dict
       THEN Reject(w, Failure("admin_pricing", "Invalid pricing format")) /\ UNCHANGED PRICING
     ELSE IF \E model_id \in DOMAIN body.pricing : ~validate_model_id(model_id)
       THEN Reject(w, Failure("admin_pricing", "Invalid model_id format")) /\ UNCHANGED PRICING
     ELSE /\ PRICING' = body.pricing
          /\ Enter(w, [NoReq EXCEPT !.op = "admin_pricing"], "admin_pricing_set", NoLoc)

\* r.set("pricing:current", json.dumps(PRICING)) and the reply "saved"
AdminPricingSet(w) ==
  /\ pc[w] = "admin_pricing_set"
  /\ pricing_current' = PRICING
  /\ Return(w, Success("admin_pricing", 0, 0, NoId))
  /\ UNCHANGED <<service, exchange, PRICING_MANAGER, PRICING, now, events, calls, store, monitor>>

\* POST /admin/pricing/update and update_from_external_source up to the
\* assignment of self.pricing and self.source
UpdateFromExternalSourceStart(w, url_ok, auth) ==
  /\ Begin(w)
  /\ PricingFrame
  /\ UNCHANGED <<PRICING, pricing_current>>
  /\ IF ~auth
       THEN /\ Reject(w, Failure("update_from_external_source", "Invalid admin key"))
            /\ UNCHANGED PRICING_MANAGER
     ELSE IF ~url_ok
       THEN /\ Reject(w, Failure("update_from_external_source", "Invalid URL format"))
            /\ UNCHANGED PRICING_MANAGER
     ELSE /\ PRICING_MANAGER' = [pricing |-> EXTERNAL_PRICING, source |-> "external"]
          /\ Enter(w, [NoReq EXCEPT !.op = "update_from_external_source"],
                   "save_to_redis", NoLoc)

\* save_to_redis: r.set("pricing:current", json.dumps(self.pricing)), then
\* return True
SaveToRedis(w) ==
  /\ pc[w] = "save_to_redis"
  /\ pricing_current' = PRICING_MANAGER.pricing
  /\ Return(w, Success("update_from_external_source", 0, 0, NoId))
  /\ UNCHANGED <<service, exchange, PRICING_MANAGER, PRICING, now, events, calls, store, monitor>>

\* the r.set of a pricing update raises: the key keeps its value, the
\* handler answers with a PricingError
PricingRedisError(w) ==
  /\ pc[w] \in PricingSteps
  /\ events < MaxEvents
  /\ events' = events + 1
  /\ Return(w, IF pc[w] = "admin_pricing_set"
                 THEN Failure("admin_pricing", "Failed to save pricing")
                 ELSE Failure("update_from_external_source",
                              "Failed to update pricing from external source"))
  /\ UNCHANGED <<service, exchange, pricing_vars, now, calls, store, monitor>>

\* pricing updates next to the Reserve calls that price with the table
NextPricing ==
  \/ \E w \in Workers, body \in AdminBodies, a \in BOOLEAN : AdminPricingStart(w, body, a)
  \/ \E w \in Workers : AdminPricingSet(w)
  \/ \E w \in Workers, ok \in BOOLEAN, a \in BOOLEAN : UpdateFromExternalSourceStart(w, ok, a)
  \/ \E w \in Workers : SaveToRedis(w)
  \/ \E w \in Workers : PricingRedisError(w)
  \/ \E w \in Workers, u \in Users, q \in RequestIds, m \in Models, e \in Endpoints,
        t \in ReserveTokens : ReserveStart(w, u, q, m, e, t[1], t[2], TRUE)
  \/ \E w \in Workers : ReserveHmset(w)
  \/ \E w \in Workers : ReserveExpire(w)
  \/ \E w \in Workers : ReserveSet(w)
  \/ \E w \in Workers : TriggerAlert(w)
  \/ \E w \in Workers : LogTransaction(w)

SpecPricing == InitPricing /\ [][NextPricing]_vars

\* ------------------------------------------- the price lookup, step by step
\* the calls of calculate_cost that run next to a pricing update
SnapshotModels == {"gpt-4o", "gpt-5"}
SnapshotTokens == {<<1000, 500>>}

\* model_pricing.get(key, dflt) read from the manager's table of the moment
\* instead of the dict the call holds
Price_FromManager(w, key, dflt) ==
  LET model_pricing == IF req[w].model \in DOMAIN PRICING_MANAGER.pricing
                         THEN PRICING_MANAGER.pricing[req[w].model] ELSE <<>>
  IN IF key \in DOMAIN model_pricing THEN model_pricing[key] ELSE dflt

\* model_pricing.get(key, dflt): model_pricing is the dict that get_price
\* took out of self.pricing when it began; an update binds self.pricing to
\* another dict and changes no dict in place
Price(w, key, dflt) ==
  IF key \in DOMAIN loc[w].model_pricing THEN loc[w].model_pricing[key] ELSE dflt

\* calculate_cost up to model_pricing = self.pricing.get(model, {})
GetPriceStart(w, model, endpoint, input_t, output_t) ==
  /\ Begin(w)
  /\ UNCHANGED <<service, exchange, pricing_vars, now, events, store, monitor>>
  /\ reply' = [reply EXCEPT ![w] = NoReply]
  /\ Enter(w,
       [op |-> "calculate_cost", model |-> model, endpoint |-> endpoint,
        input_t |-> input_t, output_t |-> output_t],
       IF endpoint = "chat" THEN "get_price_input"
       ELSE IF endpoint = "embed" THEN "get_price_embed"
       ELSE "get_price_raise",
       [balance |-> 0,
        model_pricing |-> IF model \in DOMAIN PRICING_MANAGER.pricing
                            THEN PRICING_MANAGER.pricing[model] ELSE <<>>,
        input |-> 0, output |-> 0, embed |-> 0])

\* the lookups of get_price, one dictionary read each; an endpoint that is
\* neither chat nor embed raises PricingError
GetPriceRead(w) ==
  /\ pc[w] \in {"get_price_input", "get_price_output", "get_price_embed", "get_price_raise"}
  /\ UNCHANGED <<service, exchange, pricing_vars, now, events, calls, store, monitor>>
  /\ CASE pc[w] = "get_price_input" ->
            Goto(w, "get_price_output",
                 [loc[w] EXCEPT !.input = Price(w, "chat_input", 10000)])
       [] pc[w] = "get_price_output" ->
            Goto(w, "calculate_cost_total",
                 [loc[w] EXCEPT !.output = Price(w, "chat_output", 30000)])
       [] pc[w] = "get_price_embed" ->
            Goto(w, "calculate_cost_total",
                 [loc[w] EXCEPT !.embed = Price(w, "embed", 130)])
       [] pc[w] = "get_price_raise" ->
            Return(w, Failure("calculate_cost", "Failed to calculate price"))

\* total_cost.quantize(Decimal('0.00001'), ROUND_HALF_UP); the request and
\* the prices read stay on record with the reply
CalculateCostTotal(w) ==
  /\ pc[w] = "calculate_cost_total"
  /\ pc' = [pc EXCEPT ![w] = "idle"]
  /\ reply' = [reply EXCEPT ![w] =
       Success("calculate_cost",
               IF req[w].endpoint = "chat"
                 THEN QuantizeHalfUp(req[w].input_t * loc[w].input
                                       + req[w].output_t * loc[w].output, QUANT_DIV)
                 ELSE QuantizeHalfUp(req[w].input_t * loc[w].embed, QUANT_DIV),
               0, NoId)]
  /\ UNCHANGED <<service, exchange, pricing_vars, now, events, calls, store, monitor, req, loc>>

\* cost computations next to updates of the pricing table
NextSnapshot ==
  \/ \E w \in Workers, m \in SnapshotModels, e \in CostEndpoints, t \in SnapshotTokens :
        GetPriceStart(w, m, e, t[1], t[2])
  \/ \E w \in Workers : GetPriceRead(w)
  \/ \E w \in Workers : CalculateCostTotal(w)
  \/ \E w \in Workers, ok \in BOOLEAN, a \in BOOLEAN : UpdateFromExternalSourceStart(w, ok, a)
  \/ \E w \in Workers : SaveToRedis(w)
  \/ \E w \in Workers : PricingRedisError(w)

SpecSnapshot == InitPricing /\ [][NextSnapshot]_vars

\* --------------------------------------------- the monitoring aggregator
\* the calls of MonitoringSystem.log_transaction, as the class allows them
TxTypes == {"charge", "reserve", "commit", "adjust"}
TxAmounts == {0, 1250}

\* the outcome counters of log_transaction when only successes are counted
CountOutcome_SuccessOnly(m, success) ==
  IF success THEN [m EXCEPT !.successful_requests = @ + 1] ELSE m

\* if success: successful_requests += 1, else: failed_requests += 1
CountOutcome(m, success) ==
  IF success THEN [m EXCEPT !.successful_requests = @ + 1]
             ELSE [m EXCEPT !.failed_requests = @ + 1]

\* the if/elif chain over tx_type
CountType(m, tx_type, amount) ==
  IF tx_type = "charge" /\ amount # 0 THEN [m EXCEPT !.total_charges = @ + amount]
  ELSE IF tx_type = "reserve" THEN [m EXCEPT !.total_reservations = @ + 1]
  ELSE IF tx_type = "commit" THEN [m EXCEPT !.total_commits = @ + 1]
  ELSE m

\* a thread calls log_transaction(tx_type, amount, success)
LogTransactionCall(w, tx_type, amount, success) ==
  /\ Begin(w)
  /\ UNCHANGED <<service, exchange, pricing_vars, now, events, store, monitor>>
  /\ reply' = [reply EXCEPT ![w] = NoReply]
  /\ Enter(w, [op |-> "log_transaction", tx_type |-> tx_type, amount |-> amount,
               success |-> success],
           "log_acquire", NoLoc)

\* the statements of log_transaction, one step each: `with self.lock:`
\* waits for the lock, the three updates run under it, and check_alerts then
\* asks for the lock that the thread holds
LogTransactionStep(w) ==
  /\ pc[w] \in {"log_acquire", "log_total", "log_outcome", "log_type"}
  /\ UNCHANGED <<service, exchange, pricing_vars, now, events, calls, store>>
  /\ CASE pc[w] = "log_acquire" ->
            /\ monlock = NoLock
            /\ monlock' = w
            /\ UNCHANGED metrics
            /\ Goto(w, "log_total", loc[w])
       [] pc[w] = "log_total" ->
            /\ metrics' = [metrics EXCEPT !.total_requests = @ + 1]
            /\ UNCHANGED monlock
            /\ Goto(w, "log_outcome", loc[w])
       [] pc[w] = "log_outcome" ->
            /\ metrics' = CountOutcome(metrics, req[w].success)
            /\ UNCHANGED monlock
            /\ Goto(w, "log_type", loc[w])
       [] pc[w] = "log_type" ->
            /\ metrics' = CountType(metrics, req[w].tx_type, req[w].amount)
            /\ UNCHANGED monlock
            /\ Goto(w, "check_alerts", loc[w])

\* concurrent calls of the aggregator in a process that may be restarted
NextMonitor ==
  \/ \E w \in Workers, t \in TxTypes, a \in TxAmounts, ok \in BOOLEAN :
        LogTransactionCall(w, t, a, ok)
  \/ \E w \in Workers : LogTransactionStep(w)
  \/ Crash

SpecMonitor == InitPricing /\ [][NextMonitor]_vars

\* ------------------------------------------------- Reserve of small costs
\* estimates around the point where the cost rounds to nothing: the embed
\* price of gpt-4o gives 0 up to 49 tokens and 0.00001 USD from 50 on
SmallReserveEndpoints == {"chat", "embed"}
SmallReserveTokens == {<<49, 0>>, <<50, 0>>, <<1000, 500>>}

NextReserve ==
  \/ \E w \in Workers, u \in Users, q \in RequestIds, m \in Models,
        e \in SmallReserveEndpoints, t \in SmallReserveTokens, a \in BOOLEAN :
        ReserveStart(w, u, q, m, e, t[1], t[2], a)
  \/ \E w \in Workers : ReserveHmset(w)
  \/ \E w \in Workers : ReserveExpire(w)
  \/ \E w \in Workers : ReserveSet(w)
  \/ \E w \in Workers : TriggerAlert(w)
  \/ \E w \in Workers : LogTransaction(w)

SpecReserve == Init /\ [][NextReserve]_vars

\* ------------------------------------------------------- process restart
\* the steps of Commit from the balance read to the last usage counter
CommitSteps ==
  {"commit_get", "commit_set", "commit_hset_status", "commit_hset_actual_cost",
   "commit_hset_input", "commit_hset_output", "commit_expire", "commit_xadd",
   "commit_hincrby_user", "commit_hincrby_daily"}

\* the store after one completed Reserve of an earlier run: the deposit of
\* DepositCents, the record as Reserve writes it with its TTL, the balance
\* debited by the estimate
InitCrash ==
  /\ service \in Services
  /\ EXCHANGE_MANAGER = ExchangeRateManagerInit
  /\ exchange_rates = NoExchangeKeys
  /\ PricingInit
  /\ now = 0 /\ events = 0 /\ calls = 0
  /\ \E u \in Users, c \in DepositCents, q \in RequestIds, m \in Models, e \in Endpoints,
        t \in ReserveTokens :
       LET estimated_cost == calculate_cost(DEFAULT_PRICING, m, e, t[1], t[2])
           reservation_id == ReservationId(u, q, 0)
       IN /\ billing_deposits = <<[user_id |-> u, amount_usd |-> CentsToUnits(c)]>>
          /\ balance = (u :> (CentsToUnits(c) - estimated_cost))
          /\ reservation = (reservation_id :>
               [user_id |-> u, model |-> m, endpoint |-> e, input_tokens |-> t[1],
                output_tokens |-> t[2], estimated_cost |-> estimated_cost,
                status |-> "reserved", created_at |-> 0])
          /\ expires = (reservation_id :> RESERVATION_TTL)
  /\ billing_log = <<>> /\ billing_adjustments = <<>>
  /\ billing_alerts = <<>>
  /\ usage = <<>>
  /\ metrics = InitMetrics /\ monlock = NoLock
  /\ pc = [w \in Workers |-> "idle"]
  /\ req = [w \in Workers |-> NoReq]
  /\ loc = [w \in Workers |-> NoLoc]
  /\ reply = [w \in Workers |-> NoReply]

\* one client that commits the reservation and retries, one call after the
\* other, on a process that may stop inside a Commit
NextCrash ==
  \/ \E id \in KnownIds, t \in CommitTokens :
        (\A v \in Workers : pc[v] = "idle") /\ CommitStart("w1", id, t[1], t[2], TRUE)
  \/ \E w \in Workers : CommitGet(w)
  \/ \E w \in Workers : CommitSet(w)
  \/ \E w \in Workers : CommitHset(w)
  \/ \E w \in Workers : CommitExpire(w)
  \/ \E w \in Workers : CommitXadd(w)
  \/ \E w \in Workers : CommitHincrby(w)
  \/ \E w \in Workers : LogTransaction(w)
  \/ (\E w \in Workers : pc[w] \in CommitSteps) /\ Crash

SpecCrash == InitCrash /\ [][NextCrash]_vars

\* ================================================================ properties
\* ---------------------------------------------------------- ledger summaries
Idle(w) == pc[w] = "idle"
Quiescent == \A w \in Workers : Idle(w)

\* the sum of one field over the entries of a stream that belong to a user
RECURSIVE SumField(_, _, _)
SumField(entries, user_id, field) ==
  IF entries = <<>> THEN 0
  ELSE (IF Head(entries).user_id = user_id THEN Head(entries)[field] ELSE 0)
         + SumField(Tail(entries), user_id, field)

\* the reservations of a user that are stored in status reserved
Outstanding(user_id) ==
  {k \in DOMAIN reservation :
     /\ HGet(reservation[k], "status", "") = "reserved"
     /\ HGet(reservation[k], "user_id", "") = user_id}

RECURSIVE SumEstimated(_)
SumEstimated(ids) ==
  IF ids = {} THEN 0
  ELSE LET k == CHOOSE x \in ids : TRUE
       IN reservation[k].estimated_cost + SumEstimated(ids \ {k})

Deposited(user_id) == SumField(billing_deposits, user_id, "amount_usd")
Adjusted(user_id) == SumField(billing_adjustments, user_id, "amount_usd")
Charged(user_id) == SumField(billing_log, user_id, "cost_usd")

SucceededCommit(w, id) ==
  reply[w].ok /\ reply[w].op = "Commit" /\ reply[w].reservation_id = id
SucceededReserve(w) == reply[w].ok /\ reply[w].op = "Reserve"
Committed(id) ==
  id \in DOMAIN reservation /\ HGet(reservation[id], "status", "") = "committed"

\* ------------------------------------------------------------------- claims
\* C1: with no fault and no clock move, for any interleaving of Reserve,
\* Commit, Charge, AdjustBalance and deposits, every stored balance is >= 0
\* in every reachable state.
C1_NonNegativeBalance ==
  events = 0 => \A u \in DOMAIN balance : balance[u] >= 0

\* C2: for any reservation_id, at most one Commit returns success, also when
\* the Commits run concurrently on different workers.
C2_AtMostOneCommit ==
  events = 0 =>
    \A w1, w2 \in Workers, id \in KnownIds :
      SucceededCommit(w1, id) /\ SucceededCommit(w2, id) => w1 = w2

\* C3: when the only two calls of a run are Reserves of one user and both
\* return success, the balance is the initial balance minus both estimated
\* costs (and so both succeed only if the balance covers both).
C3_ReserveLinearizable ==
  (events = 0 /\ calls = 2 /\ \A w \in Workers : SucceededReserve(w))
    => \A u \in Users :
         /\ GetBalance(u) = Deposited(u) - (reply["w1"].amount + reply["w2"].amount)
         /\ GetBalance(u) >= 0

\* C4: conservation.  When no call is in flight (and no fault or expiry has
\* happened), the balance of every user is its deposits, minus the costs of
\* the logged Charges and Commits, minus the estimated costs of its
\* outstanding reservations, plus its adjustments.
C4_Conservation ==
  (events = 0 /\ Quiescent) =>
    \A u \in Users :
      GetBalance(u) = Deposited(u) - Charged(u) - SumEstimated(Outstanding(u))
                        + Adjusted(u)

\* C5: Reserve is all-or-nothing.  When the only call of a run is a Reserve
\* that has returned a failure, no reservation record is stored and the
\* balance is untouched.
C5_ReserveAllOrNothing ==
  \A w \in Workers :
    (calls = 1 /\ Idle(w) /\ reply[w].op = "Reserve" /\ ~reply[w].ok)
      => /\ reservation = <<>>
         /\ \A u \in Users : GetBalance(u) = Deposited(u)

C7_StatusOnlyForward ==
  [][\A k \in DOMAIN reservation :
       (events' = 0 /\ Committed(k)) =>
         \/ k \notin DOMAIN reservation'
         \/ /\ HGet(reservation'[k], "status", "") = "committed"
            /\ HGet(reservation'[k], "estimated_cost", 0)
                 = HGet(reservation[k], "estimated_cost", 0)]_vars

\* C8: a Commit returns success only with a resulting balance >= 0.
C8_CommitSuccessNonNegative ==
  events = 0 =>
    \A w \in Workers :
      (reply[w].ok /\ reply[w].op = "Commit") => reply[w].balance >= 0

\* C9: a Reserve whose estimated cost exceeds the balance it reads (a missing
\* balance reads as 0) never goes on to write: the step that reads the balance
\* changes nothing in the store and either answers insufficient-balance or
\* hands over to the low-balance alert, after which the call ends with
\* insufficient-balance, the balance and the reservation records untouched.
C9_InsufficientReserveRejected ==
  [][\A w \in Workers :
       /\ \A u \in Users, q \in RequestIds, m \in Models, e \in Endpoints,
             t \in ReserveTokens :
            (/\ calculate_cost(DEFAULT_PRICING, m, e, t[1], t[2]) > GetBalance(u)
             /\ ReserveStart(w, u, q, m, e, t[1], t[2], TRUE))
              => /\ UNCHANGED store
                 /\ \/ /\ reply'[w] = Failure("Reserve", "Insufficient balance")
                       /\ pc'[w] = "idle"
                    \/ /\ pc'[w] = "check_user_balance"
                       /\ loc'[w].balance < loc'[w].cost
       /\ (/\ TriggerAlert(w)
           /\ req[w].op = "Reserve"
           /\ loc[w].balance < loc[w].cost)
            => /\ reply'[w] = Failure("Reserve", "Insufficient balance")
               /\ pc'[w] = "idle"
               /\ UNCHANGED <<balance, reservation, expires>>]_vars

\* a Reserve was answered with insufficient-balance while the balance was
\* under the estimated cost and no record was written
C9_Witness ==
  \E w \in Workers, u \in Users :
    /\ reply[w] = Failure("Reserve", "Insufficient balance")
    /\ calls = 1
    /\ GetBalance(u) < calculate_cost(DEFAULT_PRICING, "gpt-4o", "chat", 1000, 500)
    /\ reservation = <<>>

\* C10: a record in status reserved is deleted once it is RESERVATION_TTL
\* seconds old: when no call is in flight, every stored record in status
\* reserved carries an expiry deadline no later than its creation time plus
\* RESERVATION_TTL (and so none is stored beyond that age).
C10_ReservedExpires ==
  Quiescent =>
    \A k \in DOMAIN reservation :
      HGet(reservation[k], "status", "") = "reserved"
        => /\ k \in DOMAIN expires
           /\ expires[k] <= HGet(reservation[k], "created_at", now) + RESERVATION_TTL
           /\ now - HGet(reservation[k], "created_at", now) <= RESERVATION_TTL

\* the response a handler has built: the reply it has sent or, in server.py,
\* the response it holds while MONITORING.log_transaction runs
Response(w) ==
  IF pc[w] \in {"log_transaction", "check_alerts"} THEN loc[w].result ELSE reply[w]

\* every call so far was made on worker w, one after the other, and nothing
\* else (fault, clock move) has happened
SequentialOn(w) ==
  /\ events = 0
  /\ \A v \in Workers \ {w} : Idle(v) /\ reply[v] = NoReply

\* the ledger equation of one user
Conserved(u) ==
  GetBalance(u) = Deposited(u) + Adjusted(u) - Charged(u) - SumEstimated(Outstanding(u))

\* C11: in a sequential flow of one Reserve and one Commit (after
\* AdjustBalance credits only), a successful Reserve answers reserved_amount =
\* estimated_cost = the cost of the estimated tokens and remaining_balance =
\* old balance - estimated_cost, which is the stored balance; the following
\* successful Commit answers final_cost = actual_cost = the cost of the actual
\* tokens and leaves the balance at initial - actual_cost, the reservation no
\* longer outstanding.
C11_SequentialReserveCommit ==
  \A w \in Workers :
    (SequentialOn(w) /\ Response(w).ok /\ pc[w] \notin {"log_transaction"}) =>
      LET r == Response(w)
          id == r.reservation_id
          u == id[1]
      IN /\ ((r.op = "Reserve" /\ calls = Len(billing_adjustments) + 1) =>
               /\ id \in Outstanding(u)
               /\ r.amount = reservation[id].estimated_cost
               /\ r.amount = calculate_cost(DEFAULT_PRICING, reservation[id].model,
                                reservation[id].endpoint, reservation[id].input_tokens,
                                reservation[id].output_tokens)
               /\ r.balance = GetBalance(u)
               /\ Conserved(u))
         /\ ((r.op = "Commit" /\ calls = Len(billing_adjustments) + 2) =>
               /\ Committed(id)
               /\ r.amount = reservation[id].actual_cost
               /\ r.amount = calculate_cost(DEFAULT_PRICING, reservation[id].model,
                                reservation[id].endpoint,
                                reservation[id].input_tokens_actual,
                                reservation[id].output_tokens_actual)
               /\ r.balance = GetBalance(u)
               /\ Conserved(u))

\* the example of the happy chat flow: balance 10.00, Reserve(1000, 500) and
\* Commit(950, 480) answered with final_cost 0.01195 and balance 9.98805
C11_Witness ==
  \E w \in Workers, u \in Users :
    /\ SequentialOn(w) /\ calls = Len(billing_adjustments) + 2
    /\ reply[w].ok /\ reply[w].op = "Commit"
    /\ reply[w].amount = 1195 /\ reply[w].balance = 998805
    /\ GetBalance(u) = 998805
    /\ billing_log[Len(billing_log)].cost_usd = 1195

\* the unit prices of a model that has them
HasChatPrices(m) ==
  m \in DOMAIN DEFAULT_PRICING
    /\ {"chat_input", "chat_output"} \subseteq DOMAIN DEFAULT_PRICING[m]
HasEmbedPrice(m) ==
  m \in DOMAIN DEFAULT_PRICING /\ "embed" \in DOMAIN DEFAULT_PRICING[m]

\* r units is n / QUANT_DIV rounded to the nearest unit, an exact half upwards
RoundedHalfUp(r, n) ==
  2 * QUANT_DIV * r - QUANT_DIV <= 2 * n /\ 2 * n < 2 * QUANT_DIV * r + QUANT_DIV

Calculated(w) == reply[w].op = "calculate_cost"

\* C12: for a model with the unit prices of the endpoint, calculate_cost
\* returns (input_t * chat_input + output_t * chat_output) / 1,000,000 for
\* chat and input_t * embed / 1,000,000 for embed (output tokens ignored),
\* rounded half-up to a multiple of 0.00001.
C12_CostFormula ==
  \A w \in Workers :
    Calculated(w) =>
      LET q == req[w]
          p == DEFAULT_PRICING[q.model]
      IN /\ (q.endpoint = "chat" /\ HasChatPrices(q.model)) =>
              /\ reply[w].ok
              /\ RoundedHalfUp(reply[w].amount,
                               q.input_t * p.chat_input + q.output_t * p.chat_output)
         /\ (q.endpoint = "embed" /\ HasEmbedPrice(q.model)) =>
              /\ reply[w].ok
              /\ RoundedHalfUp(reply[w].amount, q.input_t * p.embed)

\* one gpt-4o chat input token, 0.000005 USD, is charged 0.00001; fifty
\* gpt-4o embed tokens, 0.000005 USD, are charged 0.00001 whatever the output
C12_Witness ==
  \E w \in Workers :
    /\ Calculated(w) /\ reply[w].ok /\ reply[w].amount = 1
    /\ req[w].model = "gpt-4o"
    /\ \/ req[w].endpoint = "chat" /\ req[w].input_t = 1 /\ req[w].output_t = 0
       \/ req[w].endpoint = "embed" /\ req[w].input_t = 50 /\ req[w].output_t = 1000

\* get_price with no default price: a missing model or unit price is an error
PricingMiss_Strict(pricing, model, endpoint) ==
  \/ UnknownEndpoint(endpoint)
  \/ model \notin DOMAIN pricing
  \/ endpoint = "chat" /\ ~({"chat_input", "chat_output"} \subseteq DOMAIN pricing[model])
  \/ endpoint = "embed" /\ "embed" \notin DOMAIN pricing[model]

\* C13: calculate_cost for a model that is not in the pricing table, or that
\* lacks the unit price of the endpoint, fails (no cost is returned).
C13_PricingMissFails ==
  \A w \in Workers :
    (Calculated(w) /\ PricingMiss_Strict(DEFAULT_PRICING, req[w].model, req[w].endpoint))
      => ~reply[w].ok

\* the step of worker w that builds the success response of a Charge or Commit
BuildsSuccess(w) ==
  /\ pc[w] \in {"charge_hincrby_daily", "commit_hincrby_daily"}
  /\ pc'[w] # pc[w]
  /\ (IF pc'[w] = "log_transaction" THEN loc'[w].result ELSE reply'[w]).ok

\* C14: every Charge and Commit writes the balance once and then appends one
\* entry to billing:log, whose cost_usd is the cost charged and whose
\* balance_usd is the balance that operation stored; no other step of the
\* operation touches the log; and when the operation answers success, the
\* entry is in the log with the cost and the balance of the response.
C14_LogFaithful ==
  [][\A w \in Workers :
       /\ ChargeSet(w) => balance'[req[w].user_id] = loc[w].balance - req[w].cost
       /\ ChargeXadd(w) =>
            /\ Len(billing_log') = Len(billing_log) + 1
            /\ SubSeq(billing_log', 1, Len(billing_log)) = billing_log
            /\ billing_log'[Len(billing_log')].user_id = req[w].user_id
            /\ billing_log'[Len(billing_log')].cost_usd = req[w].cost
            /\ billing_log'[Len(billing_log')].balance_usd = loc[w].balance - req[w].cost
       /\ CommitSet(w) =>
            balance'[loc[w].user_id]
              = loc[w].balance + loc[w].estimated_cost - loc[w].actual_cost
       /\ CommitXadd(w) =>
            /\ Len(billing_log') = Len(billing_log) + 1
            /\ SubSeq(billing_log', 1, Len(billing_log)) = billing_log
            /\ billing_log'[Len(billing_log')].user_id = loc[w].user_id
            /\ billing_log'[Len(billing_log')].reservation_id = req[w].reservation_id
            /\ billing_log'[Len(billing_log')].cost_usd = loc[w].actual_cost
            /\ billing_log'[Len(billing_log')].balance_usd
                 = loc[w].balance + loc[w].estimated_cost - loc[w].actual_cost
       /\ (pc'[w] # pc[w] /\ pc[w] \notin {"charge_xadd", "commit_xadd"})
            => billing_log' = billing_log
       /\ BuildsSuccess(w) =>
            LET r == IF pc'[w] = "log_transaction" THEN loc'[w].result ELSE reply'[w]
            IN \E i \in DOMAIN billing_log' :
                 /\ billing_log'[i].cost_usd = r.amount
                 /\ billing_log'[i].balance_usd = r.balance
                 /\ HGet(billing_log'[i], "reservation_id", NoId) = r.reservation_id]_vars

\* a Charge has answered success and its entry, with the cost charged and the
\* balance it stored, is the last of the log
C14_Witness ==
  \E w \in Workers :
    /\ reply[w].ok /\ reply[w].op = "Charge"
    /\ billing_log # <<>>
    /\ billing_log[Len(billing_log)].cost_usd = reply[w].amount
    /\ billing_log[Len(billing_log)].balance_usd = reply[w].balance
    /\ \A u \in Users : GetBalance(u) = reply[w].balance

\* C15: when the append to billing:log raises after the balance write of a
\* Charge or Commit, the operation still answers success.
C15_LogFailureStillSuccess ==
  [][\A w \in Workers :
       (RedisError(w) /\ pc[w] \in {"charge_xadd", "commit_xadd"}) => reply'[w].ok]_vars

\* worker w arrives at position p
Reaches(w, p) == pc'[w] = p /\ pc[w] # p

\* C16: in every Charge and Commit the append to billing:log comes after the
\* balance write (for Commit after the status write and the other record
\* writes as well) and before the success response: a thread gets to the
\* append only by the step before it in that order, gets past it only by
\* appending, and builds its success response only after its last counter
\* write.
C16_LogOrder ==
  [][\A w \in Workers :
       /\ Reaches(w, "charge_xadd") =>
            ChargeSet(w) /\ balance'[req[w].user_id] = loc[w].balance - req[w].cost
       /\ Reaches(w, "charge_hincrby_user") =>
            ChargeXadd(w) /\ Len(billing_log') = Len(billing_log) + 1
       /\ Reaches(w, "charge_hincrby_daily") => ChargeHincrby(w)
       /\ Reaches(w, "commit_hset_status") => CommitSet(w)
       /\ Reaches(w, "commit_hset_actual_cost") =>
            /\ CommitHset(w)
            /\ reservation'[req[w].reservation_id].status = "committed"
       /\ Reaches(w, "commit_hset_input") => CommitHset(w)
       /\ Reaches(w, "commit_hset_output") => CommitHset(w)
       /\ Reaches(w, "commit_expire") => CommitHset(w)
       /\ Reaches(w, "commit_xadd") => CommitExpire(w)
       /\ Reaches(w, "commit_hincrby_user") =>
            CommitXadd(w) /\ Len(billing_log') = Len(billing_log) + 1
       /\ Reaches(w, "commit_hincrby_daily") => CommitHincrby(w)
       /\ (pc'[w] # pc[w]
             /\ (IF pc'[w] = "log_transaction" THEN loc'[w].result ELSE reply'[w]).ok
             /\ req[w].op \in {"Charge", "Commit"})
            => /\ pc[w] \in {"charge_hincrby_daily", "commit_hincrby_daily"}
               /\ ChargeHincrby(w) \/ CommitHincrby(w)]_vars

\* a Commit has answered success, its record is committed and its entry is
\* the last of the log
C16_Witness ==
  \E w \in Workers :
    /\ reply[w].ok /\ reply[w].op = "Commit"
    /\ Committed(reply[w].reservation_id)
    /\ billing_log # <<>>
    /\ HGet(billing_log[Len(billing_log)], "reservation_id", NoId)
         = reply[w].reservation_id

\* the usage counters a Charge of tokens_used for model by user_id has written
ChargeCounted(user_id, model, tokens_used) ==
  /\ UserUsageKey(user_id, model, "direct") \in DOMAIN usage
  /\ DailyUsageKey(model) \in DOMAIN usage
  /\ usage[UserUsageKey(user_id, model, "direct")] = tokens_used
  /\ usage[DailyUsageKey(model)] = tokens_used

\* C17: the usage counters move together with the balance.  When the only
\* call of a run is a Charge that has ended (with any outcome, a failure
\* between its steps included), the balance is debited exactly when both
\* usage counters carry its tokens.
C17_UsageAtomicWithDebit ==
  \A w \in Workers, u \in Users, m \in Models :
    (calls = 1 /\ Idle(w) /\ reply[w].op = "Charge")
      => /\ GetBalance(u) # Deposited(u) => ChargeCounted(u, m, 1000)
         /\ GetBalance(u) = Deposited(u) => usage = <<>>

\* C18: a call of Charge, Reserve, Commit or AdjustBalance that carries no
\* valid token is answered unauthenticated at once and changes nothing.
C18_AuthRequired ==
  [][\A w \in Workers :
       (\/ \E u \in Users, m \in Models, c \in ChargeInputs :
             ChargeStart(w, u, m, c[1], c[2], FALSE)
        \/ \E u \in Users, q \in RequestIds, m \in Models, e \in Endpoints,
              t \in ReserveTokens : ReserveStart(w, u, q, m, e, t[1], t[2], FALSE)
        \/ \E id \in KnownIds, t \in CommitTokens : CommitStart(w, id, t[1], t[2], FALSE)
        \/ \E u \in Users, x \in AdjustAmounts : AdjustStart(w, u, x, FALSE))
         => /\ reply'[w].error = "UNAUTHENTICATED"
            /\ pc'[w] = "idle"
            /\ UNCHANGED store]_vars

\* C19: a Charge with tokens_used <= 0, cost <= 0 or cost above the balance it
\* reads changes nothing in the store and ends in a failure with the balance,
\* the log and the usage counters untouched; a Charge that passes the checks
\* debits the balance it read by exactly the cost of the request, logs that
\* cost, and answers with it.
C19_ChargeFailsCleanOrDebitsCost ==
  [][\A w \in Workers :
       /\ \A u \in Users, m \in Models, c \in ChargeInputs :
            ChargeStart(w, u, m, c[1], c[2], TRUE) =>
              /\ UNCHANGED store
              /\ IF c[1] <= 0 \/ c[2] <= 0
                   THEN ~reply'[w].ok /\ reply'[w].op = "Charge" /\ pc'[w] = "idle"
                 ELSE IF c[2] > GetBalance(u)
                   THEN \/ /\ reply'[w] = Failure("Charge", "Insufficient balance")
                           /\ pc'[w] = "idle"
                        \/ /\ pc'[w] = "check_user_balance"
                           /\ loc'[w].balance < loc'[w].cost
                 ELSE /\ pc'[w] \in {"charge_set", "check_user_balance"}
                      /\ loc'[w].balance = GetBalance(u)
                      /\ req'[w].cost = c[2] /\ req'[w].tokens_used = c[1]
       /\ (TriggerAlert(w) /\ req[w].op = "Charge" /\ loc[w].balance < req[w].cost)
            => /\ reply'[w] = Failure("Charge", "Insufficient balance")
               /\ pc'[w] = "idle"
               /\ UNCHANGED <<balance, billing_log, usage>>
       /\ ChargeSet(w) =>
            /\ loc[w].balance >= req[w].cost
            /\ balance'[req[w].user_id] = loc[w].balance - req[w].cost
       /\ ChargeXadd(w) => billing_log'[Len(billing_log')].cost_usd = req[w].cost
       /\ (ChargeHincrby(w) /\ pc[w] = "charge_hincrby_daily") =>
            LET r == IF pc'[w] = "log_transaction" THEN loc'[w].result ELSE reply'[w]
            IN r.ok /\ r.amount = req[w].cost /\ r.balance = loc[w].balance - req[w].cost]_vars

\* a Charge was refused for its arguments, or for its cost above the balance,
\* with nothing written; and a Charge of 0.0125 on 0.02 has left 0.0075
C19_Witness ==
  \E w \in Workers, u \in Users :
    \/ /\ calls = 1 /\ reply[w].op = "Charge"
       /\ reply[w].error \in {"INVALID_ARGUMENT", "Insufficient balance"}
       /\ billing_log = <<>> /\ usage = <<>> /\ GetBalance(u) = Deposited(u)
    \/ /\ calls = 1 /\ reply[w].op = "Charge" /\ reply[w].ok
       /\ reply[w].amount = 1250 /\ GetBalance(u) = 750

\* C20: the exchange-rate table always holds USD and USDT, both at rate 1.
C20_BaseCurrenciesPinned ==
  \A c \in {"USD", "USDT"} :
    /\ c \in DOMAIN EXCHANGE_MANAGER.rates
    /\ EXCHANGE_MANAGER.rates[c].rate = RATE_SCALE

\* C21: every thread that enters log_transaction comes back from it: its
\* handler returns to the caller.
C21_LogTransactionReturns ==
  \A w \in Workers : (pc[w] = "log_transaction") ~> (pc[w] = "idle")

\* C22: alerts are emitted under one cooldown: an alert goes out (last_alert
\* is stamped, the warning is logged, the entry is sent to billing:alerts)
\* only when at least ALERT_COOLDOWN seconds have passed since the alert
\* before it; and any two entries of billing:alerts are that far apart.
C22_AlertCooldown ==
  [][/\ \A w \in Workers :
          (TriggerAlert(w) /\ metrics.last_alert > 0)
            => metrics'.last_alert - metrics.last_alert >= ALERT_COOLDOWN
     /\ \A i, j \in 1 .. Len(billing_alerts') :
          i < j => billing_alerts'[j].timestamp - billing_alerts'[i].timestamp
                     >= ALERT_COOLDOWN]_vars

\* what the store holds for user u: the balance, the reservation records
\* under the user's keys, the usage counters under the user's keys
UserView(u, bal, res, usg) ==
  <<IF u \in DOMAIN bal THEN <<bal[u]>> ELSE <<>>,
    [k \in {x \in DOMAIN res : x[1] = u} |-> res[k]],
    [k \in {x \in DOMAIN usg : x[1] = "usage" /\ x[2] = u} |-> usg[k]]>>

\* thread w takes the step
Steps(w) == <<pc[w], req[w], loc[w], reply[w]>>' # <<pc[w], req[w], loc[w], reply[w]>>

\* the user whose operation thread w is running: the user of the request,
\* for a Commit the user of the reservation
OpUser(w) == IF req[w].op = "Commit" THEN loc[w].user_id ELSE req[w].user_id

\* C23: a step changes the balance, the reservation records or the usage
\* counters of a user only if it is a step of an operation for that user.
C23_CrossUserIndependent ==
  [][\A b \in AllUsers :
       UserView(b, balance', reservation', usage') # UserView(b, balance, reservation, usage)
         => \E w \in Workers : Steps(w) /\ pc[w] # "idle" /\ OpUser(w) = b]_vars

\* usr1 has been charged or has reserved and its usage is counted, while a
\* thread is in the middle of an operation for usr2, whose state is as it was
C23_Witness ==
  /\ balance["usr1"] # balance["usr2"]
  /\ UserView("usr2", balance, reservation, usage) = <<<<CentsToUnits(2)>>, <<>>, <<>>>>
  /\ \E k \in DOMAIN usage : k[1] = "usage" /\ k[2] = "usr1"
  /\ \E w \in Workers : pc[w] # "idle" /\ OpUser(w) = "usr2"

\* thread w has built the success response of a Reserve
ReserveResponse(w) == Response(w).ok /\ Response(w).op = "Reserve"

\* C24: two successful Reserves (of one user with one request_id, a retry)
\* answer two different reservation_ids.
C24_RetryGetsNewReservation ==
  \A w, v \in Workers :
    (w # v /\ ReserveResponse(w) /\ ReserveResponse(v))
      => Response(w).reservation_id # Response(v).reservation_id

\* C25: AdjustBalance with an amount outside 0 < amount < 1,000,000 is
\* rejected with the store as it was; with an amount inside it the handler
\* sets the balance to the balance it read plus the amount, appends one entry
\* with that amount to billing:adjustments (no other step appends there) and
\* answers with the balance it set.
C25_AdjustValidatesAndCredits ==
  [][/\ \A w \in Workers :
          /\ \A u \in Users, x \in AdjustAmounts, a \in BOOLEAN :
               AdjustStart(w, u, x, a) =>
                 /\ UNCHANGED store
                 /\ IF x <= 0 \/ x >= AMOUNT_LIMIT_USD
                      THEN /\ reply'[w] = Failure("AdjustBalance", "INVALID_ARGUMENT")
                           /\ pc'[w] = "idle"
                      ELSE /\ pc'[w] = "adjust_set"
                           /\ loc'[w].balance = GetBalance(u)
                           /\ req'[w].amount_usd = x * UNITS_PER_USD
          /\ AdjustSet(w) =>
               /\ req[w].amount_usd > 0
               /\ balance'[req[w].user_id] = loc[w].balance + req[w].amount_usd
          /\ AdjustXadd(w) =>
               LET r == IF pc'[w] = "log_transaction" THEN loc'[w].result ELSE reply'[w]
               IN /\ r.ok /\ r.balance = loc[w].balance + req[w].amount_usd
                  /\ billing_adjustments' =
                       Append(billing_adjustments,
                              [user_id |-> req[w].user_id, amount_usd |-> req[w].amount_usd])
     /\ billing_adjustments' # billing_adjustments
          => \E w \in Workers : pc[w] = "adjust_xadd" /\ pc'[w] # "adjust_xadd"]_vars

\* an AdjustBalance of -5.00 (or 0, or 1,000,000) was refused with nothing
\* written, and an AdjustBalance of 10.00 has answered with the old balance
\* plus 10.00 and one entry in the stream
C25_Witness ==
  \E w, v \in Workers :
    /\ reply[v] = Failure("AdjustBalance", "INVALID_ARGUMENT")
    /\ Response(w).ok /\ Response(w).op = "AdjustBalance"
    /\ Response(w).balance = Deposited("usr1") + 10 * UNITS_PER_USD
    /\ Len(billing_adjustments) = 1
    /\ GetBalance("usr1") = Response(w).balance

PersistedPricing == IF pricing_current = NoPricing THEN DEFAULT_PRICING ELSE pricing_current

\* C27: whenever no pricing update is between its first step and its reply,
\* the table cost computation reads (PRICING_MANAGER.pricing) is the table
\* last successfully persisted under pricing:current, or the built-in
\* default when none was persisted.
C27_EffectiveIsPersisted ==
  (\A w \in Workers : pc[w] \notin PricingSteps)
    => PRICING_MANAGER.pricing = PersistedPricing


\* C28: a refresh of the exchange rates that fails (the feed times out, the
\* response has no rates, or the snapshot cannot be persisted) leaves the
\* in-memory rate table and last_updated as they were before it started.
C28_FailedRefreshChangesNothing ==
  [][\A w \in Workers, feed \in Feeds :
       (FetchExchangeRates(w, feed) /\ ~reply'[w].ok)
         => /\ EXCHANGE_MANAGER'.rates = EXCHANGE_MANAGER.rates
            /\ EXCHANGE_MANAGER'.last_updated = EXCHANGE_MANAGER.last_updated]_vars


\* the step in which thread w's Charge, Reserve, Commit or AdjustBalance call
\* ends: it is rejected on arrival, or its handler returns
Ends(w) ==
  \/ /\ pc[w] # "idle" /\ pc'[w] = "idle"
     /\ req[w].op \in {"Charge", "Reserve", "Commit", "AdjustBalance"}
  \/ /\ pc'[w] = "idle"
     /\ \/ \E u \in Users, m \in Models, c \in ChargeInputs, a \in BOOLEAN :
             ChargeStart(w, u, m, c[1], c[2], a)
        \/ \E u \in Users, q \in RequestIds, m \in Models, e \in Endpoints,
              t \in ReserveTokens, a \in BOOLEAN : ReserveStart(w, u, q, m, e, t[1], t[2], a)
        \/ \E id \in KnownIds, t \in CommitTokens, a \in BOOLEAN :
             CommitStart(w, id, t[1], t[2], a)
        \/ \E u \in Users, x \in AdjustAmounts, a \in BOOLEAN : AdjustStart(w, u, x, a)

\* C29: on the server with the monitoring system, every Charge, Reserve,
\* Commit or AdjustBalance call that ends in an error adds one to
\* total_requests and one to failed_requests.
C29_ErrorsAreCounted ==
  [][\A w \in Workers :
       (service = "server" /\ Ends(w) /\ ~reply'[w].ok)
         => /\ metrics'.total_requests = metrics.total_requests + 1
            /\ metrics'.failed_requests = metrics.failed_requests + 1]_vars


\* C30: on the server with the monitoring system, once a successful Commit
\* has been counted by log_transaction, total_charges has grown by the
\* Commit's actual cost (as it grows by the cost of a successful Charge);
\* a Reserve or an AdjustBalance adds nothing to it.
C30_TotalChargesSumsChargesAndCommits ==
  [][\A w \in Workers :
       LogTransaction(w)
         => LET r == loc[w].result
            IN metrics'.total_charges =
                 metrics.total_charges +
                   (IF r.op \in {"Charge", "Commit"} THEN r.amount ELSE 0)]_vars


\* C31: when the process has stopped inside a Commit and the retried Commit
\* (same reservation, same actual token counts) has built its success
\* response, the balance is the deposit less the actual cost: the refund
\* estimated_cost - actual_cost has been applied once.
C31_CommitCrashSafe ==
  \A w \in Workers :
    (/\ events > 0
     /\ Response(w).ok /\ Response(w).op = "Commit"
     /\ pc[w] \notin CommitSteps)
      => LET u == reservation[Response(w).reservation_id].user_id
         IN GetBalance(u) = Deposited(u) - Response(w).amount


\* C32: when a Reserve is about to write its record under a reservation_id
\* that already has one, the write fails: the stored records and their TTLs
\* stay as they are, the handler does not go on to the TTL and the debit,
\* and the balance is not changed.
C32_ReserveNeverOverwrites ==
  [][\A w \in Workers :
       (/\ pc[w] = "reserve_hmset" /\ Steps(w)
        /\ ReservationId(req[w].user_id, req[w].request_id, now) \in DOMAIN reservation)
         => /\ UNCHANGED <<reservation, expires, balance>>
            /\ pc'[w] \notin {"reserve_expire", "reserve_set"}]_vars


\* a handler stands between its write of record k and the r.expire that
\* follows it
SettingTTL(k) ==
  \E w \in Workers :
    \/ pc[w] = "reserve_expire" /\ loc[w].reservation_id = k
    \/ /\ pc[w] \in {"commit_hset_actual_cost", "commit_hset_input",
                     "commit_hset_output", "commit_expire"}
       /\ req[w].reservation_id = k

\* C33: every stored reservation record carries a TTL, once the handler that
\* wrote it is past its r.expire: a record in status reserved expires no
\* later than RESERVATION_TTL after its creation, a committed record is kept
\* COMMITTED_TTL from the commit (so at least that long from its creation).
C33_ReservationLifetime ==
  \A k \in DOMAIN reservation :
    ~SettingTTL(k) =>
      /\ k \in DOMAIN expires
      /\ HGet(reservation[k], "status", "") = "reserved"
           => expires[k] <= HGet(reservation[k], "created_at", now) + RESERVATION_TTL
      /\ HGet(reservation[k], "status", "") = "committed"
           => expires[k] >= HGet(reservation[k], "created_at", now) + COMMITTED_TTL


\* C34: with no fault and no clock move, when a Commit and another
\* operation on the same user's balance (Reserve, Charge, AdjustBalance or a
\* deposit) have both returned success and no call is in flight, the
\* balance is the sum of every operation's own delta:
\* deposits and adjustments, less the logged costs of Charges and Commits,
\* less the estimates of the reservations still outstanding.
C34_NoLostUpdate ==
  \A w, v \in Workers :
    (/\ events = 0 /\ Quiescent
     /\ w # v
     /\ reply[w].ok /\ reply[w].op = "Commit"
     /\ reply[v].ok /\ reply[v].op # "Commit")
      => \A u \in Users : Conserved(u)


\* the versions of the pricing table that are ever in effect: the built-in
\* one and the one an update from the external source installs
PricingVersions == {DEFAULT_PRICING, EXTERNAL_PRICING}

\* C35: the input and the output unit price a chat cost computation has read
\* are those of one version of the pricing table, and the cost it answers is
\* the cost under one version, also when an update of the table runs between
\* its reads.
C35_PricingSnapshotStable ==
  \A w \in Workers :
    /\ (pc[w] = "calculate_cost_total" /\ req[w].endpoint = "chat")
         => \E T \in PricingVersions :
              /\ loc[w].input = get_price(T, req[w].model, "chat").input
              /\ loc[w].output = get_price(T, req[w].model, "chat").output
    /\ (Calculated(w) /\ reply[w].ok /\ pc[w] = "idle" /\ req[w].op = "calculate_cost")
         => \E T \in PricingVersions :
              reply[w].amount = calculate_cost(T, req[w].model, req[w].endpoint,
                                               req[w].input_t, req[w].output_t)

\* a chat computation has read both prices of the built-in table while an
\* update that began after its first step has put the external table in
\* effect
C35_Witness ==
  \E w \in Workers :
    /\ pc[w] = "calculate_cost_total" /\ req[w].endpoint = "chat"
    /\ req[w].model = "gpt-4o"
    /\ loc[w].input = 5000 /\ loc[w].output = 15000
    /\ PRICING_MANAGER.pricing = EXTERNAL_PRICING


\* how many times c occurs in the list
Occurrences(list, c) == Cardinality({i \in 1 .. Len(list) : list[i] = c})

\* C36: when no exchange-table operation is in flight, every currency code
\* occurs in the supported-currency list as many times as in the rate table:
\* once when it has a rate, not at all when it has none (so of two concurrent
\* add_currency calls for one new code only one has taken effect).
C36_ExchangeAdminExclusive ==
  Quiescent =>
    \A c \in ExchangeCurrencies \cup DOMAIN EXCHANGE_RATES :
      Occurrences(EXCHANGE_MANAGER.supported_currencies, c)
        = IF c \in DOMAIN EXCHANGE_MANAGER.rates THEN 1 ELSE 0


C38_UsageCountersExact ==
  [][/\ \A k \in DOMAIN usage : k \in DOMAIN usage' /\ usage'[k] >= usage[k]
     /\ usage' # usage =>
          \E w \in Workers :
            LET tokens == IF req[w].op = "Charge" THEN req[w].tokens_used
                          ELSE req[w].input_tokens_actual + req[w].output_tokens_actual
                key == IF pc[w] \in {"charge_hincrby_daily", "commit_hincrby_daily"}
                         THEN DailyUsageKey(IF req[w].op = "Charge" THEN req[w].model
                                            ELSE loc[w].model)
                       ELSE IF req[w].op = "Charge"
                         THEN UserUsageKey(req[w].user_id, req[w].model, "direct")
                       ELSE UserUsageKey(loc[w].user_id, loc[w].model, loc[w].endpoint)
            IN /\ pc[w] \in {"charge_hincrby_user", "charge_hincrby_daily",
                             "commit_hincrby_user", "commit_hincrby_daily"}
               /\ usage' = HIncrBy(usage, key, tokens)
     /\ \A w \in Workers :
          (/\ calls' = 1 /\ pc'[w] = "idle" /\ ~reply'[w].ok
           /\ reply'[w].op \in {"Charge", "Reserve", "Commit", "AdjustBalance"})
            => usage' = <<>>]_vars


C40_ReserveAmountPositive ==
  [][/\ \A w \in Workers, u \in Users, q \in RequestIds, m \in Models,
           e \in SmallReserveEndpoints, t \in SmallReserveTokens :
          (/\ calculate_cost(PRICING_MANAGER.pricing, m, e, t[1], t[2]) = 0
           /\ ReserveStart(w, u, q, m, e, t[1], t[2], TRUE))
            => /\ reply'[w] = Failure("Reserve", "Invalid pricing calculation")
               /\ pc'[w] = "idle"
               /\ UNCHANGED <<store, monitor>>
     /\ \A w \in Workers : ReserveResponse(w)' => Response(w)'.amount > 0
     /\ \A k \in DOMAIN reservation' :
          HasField(reservation'[k], "estimated_cost")
            => reservation'[k].estimated_cost > 0]_vars

\* a Reserve of 49 embed tokens was refused for its cost of zero while
\* another Reserve, of 50 tokens, has stored its record of 0.00001 USD
C40_Witness ==
  \E w \in Workers, k \in DOMAIN reservation :
    /\ reply[w] = Failure("Reserve", "Invalid pricing calculation")
    /\ reservation[k].estimated_cost = 1
    /\ reservation[k].input_tokens = 50

====
